---- MODULE Spec2Model ----
(***************************************************************************)
(* Model of the tygent-js graph execution engine: the DAG of               *)
(* src/src/dag.ts (Map-based, dependencies declared on the nodes) and the  *)
(* Scheduler of src/unnamed/part_007 that runs it (execute,                *)
(* executeParallel, getLevelGroups); further down, the Record-based DAG of *)
(* src/unnamed/part_004 and the Scheduler(dag, maxWorkers) of              *)
(* src/src/scheduler.ts that runs it.                                      *)
(*                                                                         *)
(* Node names are the integers 1..MaxNodes; nodes are added in that order  *)
(* (any sequence of addNode calls with distinct names is such a sequence   *)
(* up to renaming).  A node's dependency list may name itself, an earlier  *)
(* or a later node.                                                        *)
(***************************************************************************)
EXTENDS Integers, Sequences, FiniteSets, TLC

\* ---------------------------------------------------------------- bounds
MaxNodes == 3
MaxDeps == 3
MaxEdges == 3
MaxCost == 1
MaxBudget == 2
MaxParallel == 2
MaxRuns == 2
MaxTicks == 3
MaxRate == 2

Names == 1..MaxNodes

\* patch.ts line 75: options.maxModifications ?? 5
DefaultMaxModifications == 5

\* part_007 line 38: maxParallelNodes: number = 4
DefaultMaxParallelNodes == 4

\* part_007 line 39: maxExecutionTime: number = 30000
DefaultMaxExecutionTime == 30000

\* part_007 line 111: const interval = 1000 / this.rateLimitPerSecond
MsPerSecond == 1000

\* the clock advances in steps of half a second, from Epoch on; Date.now() is
\* far beyond any interval, so the first node of a fresh Scheduler never waits
TickStep == MsPerSecond \div 2
Epoch == 2 * MsPerSecond

VARIABLES
  nodes,            \* DAG.nodes: the keys of the Map, in insertion order
  dependencies,     \* Node.dependencies of each node (a list of names)
  edges,            \* DAG.edges: name -> list of successor names
  tokenCost,        \* Node.getTokenCost() of each node
  g2,               \* the Graph returned by copy(): <<>> (none yet) or <<graph>>
  tokenBudget,      \* Scheduler.tokenBudget: <<>> (undefined) or <<b>>
  maxParallelNodes, \* Scheduler.maxParallelNodes
  hooks,            \* Scheduler.hooks configured (before and after hook)
  auditDir,         \* Scheduler.auditDir configured
  rateLimitPerSecond, \* Scheduler.rateLimitPerSecond: <<>> (undefined) or <<r>>
  maxExecutionTime, \* Scheduler.maxExecutionTime (ms)
  priorityNodes,    \* Scheduler.priorityNodes (a set of names)
  now,              \* Date.now() (ms)
  lastExecution,    \* Scheduler.lastExecution
  wake,             \* per node: when the timer of its rate-limit wait is due
  startedAt,        \* per node: when node.execute was invoked (0: not yet)
  endedAt,          \* per node: when node.execute settled (0: not yet)
  audit,            \* the files of the audit directory: per node <<>> or <<record>>
  tokensUsed,       \* Scheduler.tokensUsed
  status,           \* "build", "idle", "running", "resolved", "rejected"
  mode,             \* "none", "seq" (execute), "par" (executeParallel)
  err,              \* why the call rejected: "none", "cycle", "budget", "node"
  stopped,          \* the call ended on a hook that returned false
  inputs,           \* the inputs argument of the call (a map)
  results,          \* the results map of the call
  order,            \* execute: the node order being iterated
  pos,              \* execute: index in order of the current node
  levels,           \* executeParallel: the level groups
  lvl,              \* executeParallel: index of the current level
  task,             \* per node: state of its task in the current run
  taskIn,           \* per node: nodeInputs collected for it
  taskOut,          \* per node: the result its action returned
  started,          \* names in the order node.execute was invoked (this run)
  runs,             \* number of execute/executeParallel calls made
  seqOut,           \* map returned by the last execute call that resolved
  readyNodes,       \* parallel AdaptiveExecutor: the ids ready to run
  depCount,         \* parallel AdaptiveExecutor: unfinished predecessors per id
  rewriteRules,     \* AdaptiveExecutor.rewriteRules: per rule, how its action works
  maxModifications, \* AdaptiveExecutor.maxModifications
  baseDag,          \* AdaptiveExecutor.baseDag: the rewrites its nodes and edges hold
  pc,               \* AdaptiveExecutor.execute: "none", "running", "returned", "rejected"
  currentDag,       \* execute: the rewrites that currentDag holds
  currentIsBase,    \* execute: currentDag is the object baseDag
  modificationCount,   \* execute: modificationCount
  modificationHistory, \* execute: modificationHistory
  executionState,   \* execute: executionState
  executed,         \* execute: the Graphs passed to scheduler.execute, in order
  round,            \* execute: what happened in the rounds, in order
  returned,         \* execute: <<>> or <<the object returned>>
  calls,            \* number of AdaptiveExecutor.execute calls made
  plans,            \* PlanParser: the plan texts the Graph was parsed from
  nodeType,         \* PlanParser: "tool" or "llm" for the nodes it made
  edgeMappings,     \* the field mapping given to addEdge for an edge, per source and target
  got,             \* getNodeInputs: the last call, its arguments and what it returned
  resourceTracker,  \* the ResourceTracker: its totals, what is used, and activeExecutions
  trackerCall,      \* ResourceTracker: the last allocate or release call and the tracker before it
  constraints,      \* BaseNode.constraints of each node of the Record-based DAG
  maxWorkers,       \* AdaptiveExecutor.maxWorkers
  typeConcurrencyLimits, \* AdaptiveExecutor.typeConcurrencyLimits
  typeConcurrentExecutions, \* AdaptiveExecutor.typeConcurrentExecutions
  runningPromises,  \* constraint-aware execute: the ids in runningPromises
  awaiting,        \* constraint-aware execute: what the loop awaits, "none", "race", "raced" or "timer"
  agentIds          \* the node ids that start with "agent_"

vars == <<nodes, dependencies, edges, tokenCost, g2, tokenBudget, maxParallelNodes,
          hooks, auditDir, rateLimitPerSecond, maxExecutionTime, priorityNodes,
          now, lastExecution, wake, startedAt, endedAt, audit, tokensUsed, status, mode, err, stopped, inputs, results,
          order, pos, levels, lvl, task, taskIn, taskOut, started, runs, seqOut,
          readyNodes, depCount, rewriteRules, maxModifications, baseDag, pc, currentDag,
          currentIsBase, modificationCount, modificationHistory, executionState, executed,
          round, returned, calls, plans, nodeType,
          edgeMappings, got,
          resourceTracker, trackerCall, constraints, maxWorkers, typeConcurrencyLimits, typeConcurrentExecutions, runningPromises, awaiting,
          agentIds>>

dagVars == <<nodes, dependencies, edges, tokenCost, g2>>
schedVars == <<tokenBudget, maxParallelNodes, hooks, auditDir, rateLimitPerSecond,
               maxExecutionTime, priorityNodes>>
clockVars == <<now, lastExecution, wake, startedAt, endedAt>>
envVars == <<audit, clockVars>>
runVars == <<mode, err, stopped, inputs, results, order, pos, levels, lvl,
             task, taskIn, taskOut, started, runs, seqOut>>
poolVars == <<readyNodes, depCount>>
rewriteVars == <<rewriteRules, maxModifications, baseDag, pc, currentDag, currentIsBase,
                 modificationCount, modificationHistory, executionState, executed, round,
                 returned, calls>>
adaptVars == <<poolVars, rewriteVars>>
planVars == <<plans, nodeType>>
inputVars == <<edgeMappings, got>>
resVars == <<resourceTracker, trackerCall, constraints, maxWorkers, typeConcurrencyLimits, typeConcurrentExecutions, runningPromises, awaiting>>
nameVars == <<agentIds>>
extVars == <<planVars, inputVars, resVars, nameVars>>

\* ------------------------------------------------------- sequence helpers
NodeSet == {nodes[i] : i \in 1..Len(nodes)}

Reverse(s) == [i \in 1..Len(s) |-> s[Len(s) + 1 - i]]

includes(s, x) == \E i \in 1..Len(s) : s[i] = x

IndexOf(s, x) == CHOOSE i \in 1..Len(s) : s[i] = x /\ \A j \in 1..(i - 1) : s[j] # x

Count(s, x) == Cardinality({i \in 1..Len(s) : s[i] = x})

\* lists of distinct names of length at most k
DistinctSeqs(S, k) ==
  {s \in UNION {[1..m -> S] : m \in 0..k} : \A i, j \in 1..Len(s) : i # j => s[i] # s[j]}

RECURSIVE SumLen(_, _)
SumLen(f, S) ==
  IF S = {} THEN 0
  ELSE LET x == CHOOSE y \in S : TRUE IN Len(f[x]) + SumLen(f, S \ {x})

EmptyMap == <<>>

\* ------------------------------------------------------------------ DAG
\* src/src/dag.ts addNode: register the node, reset its adjacency list, and
\* add an edge dep -> node for every dependency already in the graph.
RECURSIVE pushDeps(_, _, _, _, _)
pushDeps(e, present, deps, i, name) ==
  IF i > Len(deps) THEN e
  ELSE pushDeps(IF deps[i] \in present
                  THEN [e EXCEPT ![deps[i]] = Append(@, name)]
                  ELSE e,
                present, deps, i + 1, name)

\* Two Graphs may hold the same object under a name: a list that is one
\* object in both has the same contents in both. shared is the set of such
\* names, src the lists of the Graph just changed, dst those of the other.
syncFrom(shared, src, dst) == [n \in Names |-> IF n \in shared THEN src[n] ELSE dst[n]]

\* the copy after a change of the original's adjacency and dependency lists
syncCopy(newEdges, newDependencies) ==
  IF g2 = <<>> THEN g2
  ELSE <<[g2[1] EXCEPT
            !.edges = syncFrom(g2[1].sharedEdges, newEdges, @),
            !.dependencies = syncFrom(g2[1].sharedNodes, newDependencies, @)]>>

addNode(deps, cost) ==
  /\ status = "build"
  /\ Len(nodes) < MaxNodes
  /\ SumLen(dependencies, Names) + Len(deps) <= MaxDeps
  /\ LET name == Len(nodes) + 1 IN
       /\ nodes' = Append(nodes, name)
       /\ dependencies' = [dependencies EXCEPT ![name] = deps]
       /\ tokenCost' = [tokenCost EXCEPT ![name] = cost]
       /\ edges' = pushDeps([edges EXCEPT ![name] = <<>>],
                            NodeSet \cup {name}, deps, 1, name)
       /\ g2' = syncCopy(edges', dependencies')
  /\ UNCHANGED <<extVars, adaptVars, schedVars, tokensUsed, status, runVars, envVars>>

\* src/src/dag.ts addNode with a name the graph already has: Map.set replaces
\* the node object under the name (its place in the iteration order is kept),
\* the adjacency list of the name is set to [], and the name is pushed onto
\* the adjacency list of each of its dependencies that is in the graph
addNodeAgain(name, deps, cost) ==
  /\ status = "build"
  /\ name \in NodeSet
  /\ SumLen(dependencies, Names) - Len(dependencies[name]) + Len(deps) <= MaxDeps
  /\ SumLen(edges, Names) + Len(deps) <= MaxEdges
  /\ UNCHANGED nodes
  /\ dependencies' = [dependencies EXCEPT ![name] = deps]
  /\ tokenCost' = [tokenCost EXCEPT ![name] = cost]
  /\ edges' = pushDeps([edges EXCEPT ![name] = <<>>], NodeSet, deps, 1, name)
  /\ UNCHANGED <<extVars, adaptVars, g2, schedVars, tokensUsed, status, runVars, envVars>>

\* src/src/dag.ts addEdge: both endpoints must exist; the adjacency list is
\* deduplicated; the target's dependency list is not touched.
addEdge(from, to) ==
  /\ status = "build"
  /\ from \in NodeSet
  /\ to \in NodeSet
  /\ SumLen(edges, Names) < MaxEdges
  /\ ~includes(edges[from], to)
  /\ edges' = [edges EXCEPT ![from] = Append(@, to)]
  /\ g2' = syncCopy(edges', dependencies)
  /\ UNCHANGED <<extVars, adaptVars, nodes, dependencies, tokenCost, schedVars, tokensUsed, status, runVars, envVars>>

\* ---- DAG.copy() and the Graph it returns
\* a copy that holds the node objects and the adjacency lists of the original
cloneShallow(ns, deps, es, cost) ==
  [nodes |-> ns, dependencies |-> deps, edges |-> es, tokenCost |-> cost,
   sharedNodes |-> {ns[i] : i \in 1..Len(ns)},
   sharedEdges |-> {ns[i] : i \in 1..Len(ns)}]

\* copy(): every node and every adjacency list is cloned into a new Graph;
\* the two Graphs share no node object and no list
clone(ns, deps, es, cost) ==
  [nodes |-> ns, dependencies |-> deps, edges |-> es, tokenCost |-> cost,
   sharedNodes |-> {}, sharedEdges |-> {}]

\* g2 = g.copy()
copy ==
  /\ status = "build"
  /\ g2 = <<>>
  /\ g2' = <<clone(nodes, dependencies, edges, tokenCost)>>
  /\ UNCHANGED <<extVars, adaptVars, nodes, dependencies, edges, tokenCost, schedVars, tokensUsed, status,
                 runVars, envVars>>

CopyNodeSet == IF g2 = <<>> THEN {} ELSE {g2[1].nodes[i] : i \in 1..Len(g2[1].nodes)}

\* g2.addNode(node), src/src/dag.ts addNode on the copy: the node is a new
\* object and its adjacency list a new list; the pushes onto the adjacency
\* lists of its dependencies reach the original where a list is shared
addNodeCopy(deps, cost) ==
  /\ status = "build"
  /\ g2 # <<>>
  /\ Len(g2[1].nodes) < MaxNodes
  /\ SumLen(g2[1].dependencies, Names) + Len(deps) <= MaxDeps
  /\ LET name == Len(g2[1].nodes) + 1
         es == pushDeps([g2[1].edges EXCEPT ![name] = <<>>],
                        CopyNodeSet \cup {name}, deps, 1, name)
     IN /\ g2' = <<[g2[1] EXCEPT !.nodes = Append(@, name),
                                 !.dependencies[name] = deps,
                                 !.tokenCost[name] = cost,
                                 !.edges = es,
                                 !.sharedNodes = @ \ {name},
                                 !.sharedEdges = @ \ {name}]>>
        /\ edges' = syncFrom(g2[1].sharedEdges \ {name}, es, edges)
  /\ UNCHANGED <<extVars, adaptVars, nodes, dependencies, tokenCost, schedVars, tokensUsed, status, runVars,
                 envVars>>

\* g2.addEdge(from, to), src/src/dag.ts addEdge on the copy
addEdgeCopy(from, to) ==
  /\ status = "build"
  /\ from \in CopyNodeSet
  /\ to \in CopyNodeSet
  /\ SumLen(g2[1].edges, Names) < MaxEdges
  /\ ~includes(g2[1].edges[from], to)
  /\ g2' = <<[g2[1] EXCEPT !.edges[from] = Append(@, to)]>>
  /\ edges' = syncFrom(g2[1].sharedEdges, g2'[1].edges, edges)
  /\ UNCHANGED <<extVars, adaptVars, nodes, dependencies, tokenCost, schedVars, tokensUsed, status, runVars,
                 envVars>>

\* node.setDependencies(deps) on a node of the original: the dependency list
\* of the node object is replaced
setDependencies(name, deps) ==
  /\ status = "build"
  /\ name \in NodeSet
  /\ deps # dependencies[name]
  /\ SumLen(dependencies, Names) - Len(dependencies[name]) + Len(deps) <= MaxDeps
  /\ dependencies' = [dependencies EXCEPT ![name] = deps]
  /\ g2' = syncCopy(edges, dependencies')
  /\ UNCHANGED <<extVars, adaptVars, nodes, edges, tokenCost, schedVars, tokensUsed, status, runVars, envVars>>

\* node.setDependencies(deps) on a node of the copy
setDependenciesCopy(name, deps) ==
  /\ status = "build"
  /\ name \in CopyNodeSet
  /\ deps # g2[1].dependencies[name]
  /\ SumLen(g2[1].dependencies, Names) - Len(g2[1].dependencies[name]) + Len(deps) <= MaxDeps
  /\ g2' = <<[g2[1] EXCEPT !.dependencies[name] = deps]>>
  /\ dependencies' = syncFrom(g2[1].sharedNodes, g2'[1].dependencies, dependencies)
  /\ UNCHANGED <<extVars, adaptVars, nodes, edges, tokenCost, schedVars, tokensUsed, status, runVars, envVars>>

\* src/src/dag.ts getTopologicalOrder: depth-first over the dependency lists
\* with temporary marks; the post-order result is reversed before returning.
RECURSIVE visit(_, _), visitDeps(_, _, _)
visit(nodeName, st) ==
  IF st.thrown # <<>> THEN st
  ELSE IF nodeName \in st.tempMarks THEN [st EXCEPT !.thrown = <<nodeName>>]
  ELSE IF nodeName \notin st.visited THEN
    LET st1 == [st EXCEPT !.tempMarks = @ \cup {nodeName}]
        st2 == visitDeps(dependencies[nodeName], 1, st1)
    IN IF st2.thrown # <<>> THEN st2
       ELSE [st2 EXCEPT !.visited = @ \cup {nodeName},
                        !.tempMarks = @ \ {nodeName},
                        !.result = Append(@, nodeName)]
  ELSE st

visitDeps(deps, i, st) ==
  IF i > Len(deps) \/ st.thrown # <<>> THEN st
  ELSE visitDeps(deps, i + 1,
                 IF deps[i] \in NodeSet THEN visit(deps[i], st) ELSE st)

RECURSIVE visitAll(_, _)
visitAll(i, st) ==
  IF i > Len(nodes) \/ st.thrown # <<>> THEN st
  ELSE visitAll(i + 1, IF nodes[i] \notin st.visited THEN visit(nodes[i], st) ELSE st)

getTopologicalOrder ==
  LET st == visitAll(1, [visited |-> {}, tempMarks |-> {}, result |-> <<>>, thrown |-> <<>>])
  IN [thrown |-> st.thrown, order |-> Reverse(st.result)]

\* ------------------------------------------------------------ Scheduler
put(m, k, v) == [x \in (DOMAIN m) \cup {k} |-> IF x = k THEN v ELSE m[x]]

\* what a node's action returns: a deterministic function of its resolved inputs
Out(n, nodeInputs) == <<n, nodeInputs>>

\* the inputs argument of a call: {} or {x: value}; key 0 is no node name
InputMaps == {EmptyMap, 0 :> <<0, EmptyMap>>}

\* a budget check that forgets the cost of the node about to run
budgetExceededNoCost(used, cost, budget) ==
  budget # <<>> /\ used > budget[1]

\* part_007 line 122 / 208: the token budget check
budgetExceeded(used, cost, budget) ==
  budget # <<>> /\ used + cost > budget[1]

\* a reservation made before the check: the cost is charged even when rejecting
admitCharge(used, cost, budget) ==
  [ok |-> ~budgetExceeded(used, cost, budget), used |-> used + cost]

\* part_007 lines 120-125 / 207-211: check, then reserve
admit(used, cost, budget) ==
  IF budgetExceeded(used, cost, budget)
    THEN [ok |-> FALSE, used |-> used]
    ELSE [ok |-> TRUE, used |-> used + cost]

\* part_007 lines 127-140 / 213-226: the outputs of the dependencies that are
\* already in results, then the global inputs under keys not yet taken
collectInputs(n, res) ==
  LET fromDeps == {d \in DOMAIN res : includes(dependencies[n], d)}
  IN [k \in fromDeps \cup DOMAIN inputs |-> IF k \in fromDeps THEN res[k] ELSE inputs[k]]

\* part_007 getLevelGroups: every node starts at level 0; one pass over the
\* topological order raises a node above the current level of its dependencies
RECURSIVE levelOfDeps(_, _, _, _)
levelOfDeps(lv, nodeName, deps, i) ==
  IF i > Len(deps) THEN lv
  ELSE levelOfDeps(IF deps[i] \in NodeSet /\ lv[deps[i]] + 1 > lv[nodeName]
                     THEN [lv EXCEPT ![nodeName] = lv[deps[i]] + 1]
                     ELSE lv,
                   nodeName, deps, i + 1)

RECURSIVE computeLevels(_, _, _)
computeLevels(lv, ord, i) ==
  IF i > Len(ord) THEN lv
  ELSE computeLevels(levelOfDeps(lv, ord[i], dependencies[ord[i]], 1), ord, i + 1)

RECURSIVE groupLevels(_, _, _, _)
\* a grouping loop that stops one level early (i < maxLevel for i <= maxLevel)
groupLevelsShort(lv, ord, i, maxLevel) ==
  IF i >= maxLevel THEN <<>>
  ELSE LET nodesAtLevel == SelectSeq(ord, LAMBDA n : lv[n] = i)
       IN (IF Len(nodesAtLevel) > 0 THEN <<nodesAtLevel>> ELSE <<>>)
            \o groupLevels(lv, ord, i + 1, maxLevel)

groupLevels(lv, ord, i, maxLevel) ==
  IF i > maxLevel THEN <<>>
  ELSE LET nodesAtLevel == SelectSeq(ord, LAMBDA n : lv[n] = i)
       IN (IF Len(nodesAtLevel) > 0 THEN <<nodesAtLevel>> ELSE <<>>)
            \o groupLevels(lv, ord, i + 1, maxLevel)

getLevelGroups ==
  LET topo == getTopologicalOrder
      lv == computeLevels([n \in NodeSet |-> 0], topo.order, 1)
      maxLevel == IF NodeSet = {} THEN -1
                  ELSE CHOOSE m \in {lv[n] : n \in NodeSet} : \A n \in NodeSet : lv[n] <= m
  IN [thrown |-> topo.thrown,
      groups |-> IF topo.thrown # <<>> THEN <<>> ELSE groupLevels(lv, topo.order, 0, maxLevel)]

\* the Scheduler as its field initialisers leave it (part_007 lines 38-47)
DefaultOptions ==
  [tokenBudget |-> <<>>, hooks |-> FALSE, maxParallelNodes |-> DefaultMaxParallelNodes,
   auditDir |-> FALSE, rateLimitPerSecond |-> <<>>,
   maxExecutionTime |-> DefaultMaxExecutionTime, priorityNodes |-> {}]

\* new Scheduler(dag, options): the options given override the defaults
newScheduler(options) ==
  /\ status = "build"
  /\ status' = "idle"
  /\ tokenBudget' = options.tokenBudget
  /\ hooks' = options.hooks
  /\ maxParallelNodes' = options.maxParallelNodes
  /\ auditDir' = options.auditDir
  /\ rateLimitPerSecond' = options.rateLimitPerSecond
  /\ maxExecutionTime' = options.maxExecutionTime
  /\ priorityNodes' = options.priorityNodes
  /\ UNCHANGED <<extVars, adaptVars, dagVars, tokensUsed, runVars, envVars>>

InFlight == {n \in Names : task[n] \in {"wait", "before", "exec", "after"}}

CanCall ==
  /\ status \in {"idle", "resolved", "rejected"}
  /\ runs < MaxRuns
  /\ InFlight = {}

NoTasks == [n \in Names |-> "idle"]
NoMaps == [n \in Names |-> EmptyMap]

\* ---- Scheduler.execute (part_007 lines 100-179)
execute(inp) ==
  /\ CanCall
  /\ LET topo == getTopologicalOrder
         ord == Reverse(topo.order)
     IN /\ mode' = "seq"
        /\ runs' = runs + 1
        /\ inputs' = inp
        /\ results' = inp
        /\ stopped' = FALSE
        /\ task' = NoTasks
        /\ taskIn' = NoMaps
        /\ taskOut' = NoMaps
        /\ started' = <<>>
        /\ levels' = <<>>
        /\ lvl' = 0
        /\ IF topo.thrown # <<>>
             THEN /\ status' = "rejected"
                  /\ err' = "cycle"
                  /\ order' = <<>>
                  /\ pos' = 0
                  /\ seqOut' = <<>>
             ELSE /\ err' = "none"
                  /\ order' = ord
                  /\ pos' = 1
                  /\ status' = IF Len(ord) = 0 THEN "resolved" ELSE "running"
                  /\ seqOut' = IF Len(ord) = 0
                                 THEN <<[in |-> inp, out |-> inp, stopped |-> FALSE]>>
                                 ELSE <<>>
  /\ wake' = [n \in Names |-> 0]
  /\ startedAt' = [n \in Names |-> 0]
  /\ endedAt' = [n \in Names |-> 0]
  /\ UNCHANGED <<extVars, adaptVars, dagVars, schedVars, audit, now, lastExecution, tokensUsed>>

\* part_007 lines 110-113: the time to wait before the next node may start
rateWait(last, t) ==
  IF rateLimitPerSecond = <<>> THEN 0
  ELSE last + (MsPerSecond \div rateLimitPerSecond[1]) - t

\* part_007 line 117: this.lastExecution = Date.now(), with a rate limit only
stamp(last, t) == IF rateLimitPerSecond = <<>> THEN last ELSE t

\* a before-hook that returned false is obeyed only after node.execute was called
invokeDespiteStop(st, nodeName, stop) == Append(st, nodeName)

\* part_007 lines 143-152: node.execute is called unless the before-hook
\* returned false
invoke(st, nodeName, stop) == IF stop THEN st ELSE Append(st, nodeName)

\* part_007 lines 110-116: the loop waits on a timer for the rate limit
seqWait ==
  /\ status = "running"
  /\ mode = "seq"
  /\ task[order[pos]] = "idle"
  /\ rateWait(lastExecution, now) > 0
  /\ task' = [task EXCEPT ![order[pos]] = "wait"]
  /\ wake' = [wake EXCEPT ![order[pos]] = now + rateWait(lastExecution, now)]
  /\ UNCHANGED <<extVars, adaptVars, dagVars, schedVars, audit, now, lastExecution, startedAt, endedAt,
                 tokensUsed, status, mode, err, stopped, inputs, results, order, pos,
                 levels, lvl, taskIn, taskOut, started, runs, seqOut>>

\* one loop iteration from the end of the rate-limit wait up to the call of
\* node.execute: budget check and reservation, input collection, before-hook
\* (cont = FALSE: it returned false)
seqBegin(cont) ==
  /\ status = "running"
  /\ mode = "seq"
  /\ \/ task[order[pos]] = "idle" /\ rateWait(lastExecution, now) <= 0
     \/ task[order[pos]] = "wait" /\ now >= wake[order[pos]]
  /\ LET nodeName == order[pos]
         adm == admit(tokensUsed, tokenCost[nodeName], tokenBudget)
         nodeInputs == collectInputs(nodeName, results)
         stop == hooks /\ ~cont
     IN /\ lastExecution' = stamp(lastExecution, now)
        /\ tokensUsed' = adm.used
        /\ IF ~adm.ok
             THEN /\ status' = "rejected"
                  /\ err' = "budget"
                  /\ task' = [task EXCEPT ![nodeName] = "idle"]
                  /\ UNCHANGED <<stopped, taskIn, started, startedAt, seqOut>>
             ELSE /\ started' = invoke(started, nodeName, stop)
                  /\ IF stop
                       THEN /\ status' = "resolved"
                            /\ stopped' = TRUE
                            /\ seqOut' = <<[in |-> inputs, out |-> results, stopped |-> TRUE]>>
                            /\ task' = [task EXCEPT ![nodeName] = "idle"]
                            /\ UNCHANGED <<err, taskIn, startedAt>>
                       ELSE /\ task' = [task EXCEPT ![nodeName] = "exec"]
                            /\ taskIn' = [taskIn EXCEPT ![nodeName] = nodeInputs]
                            /\ startedAt' = [startedAt EXCEPT ![nodeName] = now]
                            /\ UNCHANGED <<status, err, stopped, seqOut>>
  /\ UNCHANGED <<extVars, adaptVars, dagVars, schedVars, audit, now, wake, endedAt, mode, inputs, results,
                 order, pos, levels, lvl, taskOut, runs>>

\* part_007 lines 161-164 / 243-246: the audit file <nodeName>.json is written
\* (and replaces a file of that name) when an audit directory is configured
writeAudit(files, nodeName, nodeInputs, result) ==
  IF auditDir
    THEN [files EXCEPT ![nodeName] =
            <<[node |-> nodeName, inputs |-> nodeInputs, output |-> result]>>]
    ELSE files

\* the rest of the iteration: the action returns or throws, the result is
\* stored, the after-hook runs, the loop advances
seqComplete(throws, cont) ==
  /\ status = "running"
  /\ mode = "seq"
  /\ task[order[pos]] = "exec"
  /\ LET nodeName == order[pos]
         result == Out(nodeName, taskIn[nodeName])
         res1 == put(results, nodeName, result)
     IN IF throws
          THEN /\ task' = [task EXCEPT ![nodeName] = "err"]
               /\ status' = "rejected"
               /\ err' = "node"
               /\ UNCHANGED <<results, taskOut, stopped, pos, seqOut, audit>>
          ELSE /\ task' = [task EXCEPT ![nodeName] = "ok"]
               /\ taskOut' = [taskOut EXCEPT ![nodeName] = result]
               /\ results' = res1
               /\ audit' = writeAudit(audit, nodeName, taskIn[nodeName], result)
               /\ UNCHANGED err
               /\ IF hooks /\ ~cont
                    THEN /\ status' = "resolved"
                         /\ stopped' = TRUE
                         /\ pos' = pos
                         /\ seqOut' = <<[in |-> inputs, out |-> res1, stopped |-> TRUE]>>
                    ELSE /\ pos' = pos + 1
                         /\ stopped' = FALSE
                         /\ status' = IF pos = Len(order) THEN "resolved" ELSE "running"
                         /\ seqOut' = IF pos = Len(order)
                                        THEN <<[in |-> inputs, out |-> res1, stopped |-> FALSE]>>
                                        ELSE seqOut
  /\ endedAt' = [endedAt EXCEPT ![order[pos]] = now]
  /\ UNCHANGED <<extVars, adaptVars, dagVars, schedVars, now, lastExecution, wake, startedAt, tokensUsed,
                 mode, inputs, order, levels, lvl, taskIn, started, runs>>

\* ---- Scheduler.executeParallel (part_007 lines 187-278)
\* a task from the end of its rate-limit wait to its next await (lines
\* 204-237): lastExecution is stamped, the budget checked and the cost
\* reserved, the inputs collected; then the before-hook is awaited or
\* node.execute is called
resume(nodeName, res, st) ==
  LET adm == admit(st.used, tokenCost[nodeName], tokenBudget)
      nodeInputs == collectInputs(nodeName, res)
      st1 == [st EXCEPT !.last = stamp(st.last, now)]
  IN IF ~adm.ok
       THEN [st1 EXCEPT !.task[nodeName] = "budget"]
       ELSE [st1 EXCEPT !.used = adm.used,
                        !.task[nodeName] = IF hooks THEN "before" ELSE "exec",
                        !.taskIn[nodeName] = nodeInputs,
                        !.started = invoke(st.started, nodeName, hooks),
                        !.startedAt[nodeName] = IF hooks THEN 0 ELSE now]

\* level.map(async ...): the synchronous part of every task of the level, in
\* level order: a task that has to wait for the rate limit stops at its timer
\* (lines 197-203), the others run on as in resume
RECURSIVE launch(_, _, _, _)
launch(level, i, res, st) ==
  IF i > Len(level) THEN st
  ELSE LET nodeName == level[i]
           wait == rateWait(st.last, now)
       IN launch(level, i + 1, res,
            IF wait > 0
              THEN [st EXCEPT !.task[nodeName] = "wait", !.wake[nodeName] = now + wait]
              ELSE resume(nodeName, res, st))

LevelRejected(level, tk) == \E i \in 1..Len(level) : tk[level[i]] \in {"budget", "err"}

\* the state of the Scheduler and of the tasks that launch and resume work on
taskState(tk, tkIn, st, stAt) ==
  [used |-> tokensUsed, last |-> lastExecution, task |-> tk, taskIn |-> tkIn,
   started |-> st, wake |-> wake, startedAt |-> stAt]

executeParallel(inp) ==
  /\ CanCall
  /\ LET lg == getLevelGroups
         fresh == [taskState(NoTasks, NoMaps, <<>>, [n \in Names |-> 0])
                     EXCEPT !.wake = [n \in Names |-> 0]]
         st == IF Len(lg.groups) = 0 THEN fresh ELSE launch(lg.groups[1], 1, inp, fresh)
     IN /\ mode' = "par"
        /\ runs' = runs + 1
        /\ inputs' = inp
        /\ results' = inp
        /\ stopped' = FALSE
        /\ taskOut' = NoMaps
        /\ endedAt' = [n \in Names |-> 0]
        /\ order' = <<>>
        /\ pos' = 0
        /\ levels' = lg.groups
        /\ UNCHANGED seqOut
        /\ IF lg.thrown # <<>>
             THEN /\ status' = "rejected"
                  /\ err' = "cycle"
                  /\ lvl' = 0
                  /\ task' = NoTasks
                  /\ taskIn' = NoMaps
                  /\ started' = <<>>
                  /\ wake' = fresh.wake
                  /\ startedAt' = fresh.startedAt
                  /\ UNCHANGED <<tokensUsed, lastExecution>>
             ELSE /\ lvl' = IF Len(lg.groups) = 0 THEN 0 ELSE 1
                  /\ task' = st.task
                  /\ taskIn' = st.taskIn
                  /\ started' = st.started
                  /\ tokensUsed' = st.used
                  /\ lastExecution' = st.last
                  /\ wake' = st.wake
                  /\ startedAt' = st.startedAt
                  /\ IF Len(lg.groups) = 0
                       THEN status' = "resolved" /\ err' = "none"
                       ELSE IF LevelRejected(lg.groups[1], st.task)
                         THEN status' = "rejected" /\ err' = "budget"
                         ELSE status' = "running" /\ err' = "none"
  /\ UNCHANGED <<extVars, adaptVars, dagVars, schedVars, audit, now>>

\* the timer of a task's rate-limit wait fires and the task runs on
parWake(nodeName) ==
  /\ mode = "par"
  /\ task[nodeName] = "wait"
  /\ now >= wake[nodeName]
  /\ LET st == resume(nodeName, results, taskState(task, taskIn, started, startedAt))
     IN /\ task' = st.task
        /\ taskIn' = st.taskIn
        /\ started' = st.started
        /\ tokensUsed' = st.used
        /\ lastExecution' = st.last
        /\ startedAt' = st.startedAt
        /\ status' = IF status = "running" /\ st.task[nodeName] = "budget"
                       THEN "rejected" ELSE status
        /\ err' = IF status = "running" /\ st.task[nodeName] = "budget"
                    THEN "budget" ELSE err
  /\ UNCHANGED <<extVars, adaptVars, dagVars, schedVars, audit, now, wake, endedAt, mode, stopped, inputs,
                 results, order, pos, levels, lvl, taskOut, runs, seqOut>>

\* a task resumes after the before-hook (cont = FALSE: the hook returned false,
\* the task returns undefined) and calls node.execute
parBefore(nodeName, cont) ==
  /\ mode = "par"
  /\ task[nodeName] = "before"
  /\ IF cont
       THEN /\ task' = [task EXCEPT ![nodeName] = "exec"]
            /\ started' = Append(started, nodeName)
            /\ startedAt' = [startedAt EXCEPT ![nodeName] = now]
       ELSE /\ task' = [task EXCEPT ![nodeName] = "stop"]
            /\ UNCHANGED <<started, startedAt>>
  /\ UNCHANGED <<extVars, adaptVars, dagVars, schedVars, audit, now, lastExecution, wake, endedAt, tokensUsed,
                 status, mode, err, stopped, inputs, results, order, pos, levels, lvl,
                 taskIn, taskOut, runs, seqOut>>

\* the action of a task settles: it throws (the task rejects, and with it
\* Promise.all and the call) or returns its result
parComplete(nodeName, throws) ==
  /\ mode = "par"
  /\ task[nodeName] = "exec"
  /\ endedAt' = [endedAt EXCEPT ![nodeName] = now]
  /\ IF throws
       THEN /\ task' = [task EXCEPT ![nodeName] = "err"]
            /\ status' = IF status = "running" THEN "rejected" ELSE status
            /\ err' = IF status = "running" THEN "node" ELSE err
            /\ UNCHANGED <<taskOut, audit>>
       ELSE /\ task' = [task EXCEPT ![nodeName] = IF hooks THEN "after" ELSE "ok"]
            /\ taskOut' = [taskOut EXCEPT ![nodeName] = Out(nodeName, taskIn[nodeName])]
            /\ audit' = writeAudit(audit, nodeName, taskIn[nodeName],
                                   Out(nodeName, taskIn[nodeName]))
            /\ UNCHANGED <<status, err>>
  /\ UNCHANGED <<extVars, adaptVars, dagVars, schedVars, now, lastExecution, wake, startedAt, tokensUsed, mode,
                 stopped, inputs, results, order, pos, levels, lvl, taskIn, started, runs,
                 seqOut>>

\* a task resumes after the after-hook
parAfter(nodeName, cont) ==
  /\ mode = "par"
  /\ task[nodeName] = "after"
  /\ task' = [task EXCEPT ![nodeName] = IF cont THEN "ok" ELSE "stop"]
  /\ UNCHANGED <<extVars, adaptVars, dagVars, schedVars, envVars, tokensUsed, status, mode, err, stopped, inputs,
                 results, order, pos, levels, lvl, taskIn, taskOut, started, runs, seqOut>>

RECURSIVE storeResults(_, _, _)
storeResults(res, level, i) ==
  IF i > Len(level) THEN res
  ELSE storeResults(put(res, level[i], taskOut[level[i]]), level, i + 1)

\* Promise.all of the level fulfils: break on an undefined task result, else
\* store the results of the level and start the tasks of the next level
parJoin ==
  /\ mode = "par"
  /\ status = "running"
  /\ \A i \in 1..Len(levels[lvl]) : task[levels[lvl][i]] \in {"ok", "stop"}
  /\ IF \E i \in 1..Len(levels[lvl]) : task[levels[lvl][i]] = "stop"
       THEN /\ status' = "resolved"
            /\ stopped' = TRUE
            /\ UNCHANGED <<tokensUsed, lastExecution, wake, startedAt, err, results, lvl,
                           task, taskIn, started>>
       ELSE LET res1 == storeResults(results, levels[lvl], 1)
                cur == taskState(task, taskIn, started, startedAt)
                st == IF lvl = Len(levels) THEN cur
                      ELSE launch(levels[lvl + 1], 1, res1, cur)
            IN /\ results' = res1
               /\ lvl' = lvl + 1
               /\ tokensUsed' = st.used
               /\ lastExecution' = st.last
               /\ wake' = st.wake
               /\ startedAt' = st.startedAt
               /\ task' = st.task
               /\ taskIn' = st.taskIn
               /\ started' = st.started
               /\ UNCHANGED stopped
               /\ IF lvl = Len(levels)
                    THEN status' = "resolved" /\ UNCHANGED err
                    ELSE IF LevelRejected(levels[lvl + 1], st.task)
                      THEN status' = "rejected" /\ err' = "budget"
                      ELSE UNCHANGED <<status, err>>
  /\ UNCHANGED <<extVars, adaptVars, dagVars, schedVars, audit, now, endedAt, mode, inputs, order, pos, levels,
                 taskOut, runs, seqOut>>

\* time passes while a call is running
tick ==
  /\ status = "running"
  /\ now < Epoch + MaxTicks * TickStep
  /\ now' = now + TickStep
  /\ UNCHANGED <<extVars, adaptVars, dagVars, schedVars, audit, lastExecution, wake, startedAt, endedAt,
                 tokensUsed, status, runVars>>

\* ------------------------------------- DAG and Scheduler with maxWorkers
\* The Record-based DAG of src/unnamed/part_004 (edges only, nodes carry no
\* dependency list) and the Scheduler of src/src/scheduler.ts that runs it.

\* part_004 addNode: a new id is registered with an empty adjacency list
addNodeR ==
  /\ status = "build"
  /\ Len(nodes) < MaxNodes
  /\ LET id == Len(nodes) + 1 IN
       /\ nodes' = Append(nodes, id)
       /\ edges' = [edges EXCEPT ![id] = <<>>]
  /\ UNCHANGED <<extVars, adaptVars, dependencies, tokenCost, g2, schedVars, tokensUsed, status, runVars, envVars>>

\* part_004 addEdge (without a field mapping)
addEdgeR(fromNodeId, toNodeId) ==
  /\ status = "build"
  /\ fromNodeId \in NodeSet
  /\ toNodeId \in NodeSet
  /\ SumLen(edges, Names) < MaxEdges
  /\ ~includes(edges[fromNodeId], toNodeId)
  /\ edges' = [edges EXCEPT ![fromNodeId] = Append(@, toNodeId)]
  /\ UNCHANGED <<extVars, adaptVars, nodes, dependencies, tokenCost, g2, schedVars, tokensUsed, status, runVars, envVars>>

\* part_004 getTopologicalOrder: depth-first over the adjacency lists, the
\* post-order reversed
RECURSIVE visitR(_, _), visitNeighbors(_, _, _)
visitR(nodeId, st) ==
  IF st.thrown # <<>> THEN st
  ELSE IF nodeId \in st.tempVisited THEN [st EXCEPT !.thrown = <<nodeId>>]
  ELSE IF nodeId \notin st.visited THEN
    LET st1 == [st EXCEPT !.tempVisited = @ \cup {nodeId}]
        st2 == visitNeighbors(edges[nodeId], 1, st1)
    IN IF st2.thrown # <<>> THEN st2
       ELSE [st2 EXCEPT !.tempVisited = @ \ {nodeId},
                        !.visited = @ \cup {nodeId},
                        !.order = Append(@, nodeId)]
  ELSE st

visitNeighbors(neighbors, i, st) ==
  IF i > Len(neighbors) \/ st.thrown # <<>> THEN st
  ELSE visitNeighbors(neighbors, i + 1, visitR(neighbors[i], st))

RECURSIVE visitAllR(_, _)
visitAllR(i, st) ==
  IF i > Len(nodes) \/ st.thrown # <<>> THEN st
  ELSE visitAllR(i + 1, IF nodes[i] \notin st.visited THEN visitR(nodes[i], st) ELSE st)

getTopologicalOrderR ==
  LET st == visitAllR(1, [visited |-> {}, tempVisited |-> {}, order |-> <<>>, thrown |-> <<>>])
  IN [thrown |-> st.thrown, order |-> Reverse(st.order)]

\* Object.assign(target, source)
assign(target, source) ==
  [k \in (DOMAIN target) \cup (DOMAIN source) |->
     IF k \in DOMAIN source THEN source[k] ELSE target[k]]

\* part_004 getNodeInputs for edges without condition or mapping: the outputs
\* of every predecessor that has one are merged, in the order of DAG.edges
RECURSIVE getNodeInputsR(_, _, _)
getNodeInputsR(nodeId, outputs, i) ==
  IF i = 0 THEN EmptyMap
  ELSE LET fromNodeId == nodes[i]
           before == getNodeInputsR(nodeId, outputs, i - 1)
       IN IF includes(edges[fromNodeId], nodeId) /\ fromNodeId \in DOMAIN outputs
            THEN assign(before, outputs[fromNodeId])
            ELSE before

\* what an action returns here: an object with one field, named after the node
OutR(nodeId, nodeInputs) == nodeId :> <<nodeId, nodeInputs>>

\* scheduler.ts line 59: { error: message }; the field "error" is key -1
errorOutput(nodeId) == (-1) :> <<nodeId, EmptyMap>>

\* scheduler.ts line 36: { input: { data: inputData } }; "input" is key 0
initialOutputs == 0 :> (0 :> <<0, EmptyMap>>)

\* new Scheduler(dag, maxWorkers)
newSchedulerR ==
  /\ status = "build"
  /\ status' = "idle"
  /\ UNCHANGED <<extVars, adaptVars, dagVars, schedVars, tokensUsed, runVars, envVars>>

\* ---- Scheduler.execute (src/src/scheduler.ts lines 34-78)
executeR ==
  /\ status = "idle"
  /\ runs = 0
  /\ LET topo == getTopologicalOrderR IN
       /\ mode' = "seq"
       /\ runs' = runs + 1
       /\ results' = initialOutputs
       /\ IF topo.thrown # <<>>
            THEN /\ status' = "rejected"
                 /\ err' = "cycle"
                 /\ order' = <<>>
                 /\ pos' = 0
            ELSE /\ err' = "none"
                 /\ order' = topo.order
                 /\ pos' = 1
                 /\ status' = IF Len(topo.order) = 0 THEN "resolved" ELSE "running"
  /\ UNCHANGED <<extVars, adaptVars, dagVars, schedVars, envVars, tokensUsed, stopped, inputs, levels, lvl, task,
                 taskIn, taskOut, started, seqOut>>

\* lines 47-55: the inputs of the node are resolved and its action is called
stepBeginR ==
  /\ status = "running"
  /\ mode = "seq"
  /\ task[order[pos]] = "idle"
  /\ LET nodeId == order[pos] IN
       /\ task' = [task EXCEPT ![nodeId] = "exec"]
       /\ taskIn' = [taskIn EXCEPT ![nodeId] = getNodeInputsR(nodeId, results, Len(nodes))]
       /\ started' = Append(started, nodeId)
  /\ UNCHANGED <<extVars, adaptVars, dagVars, schedVars, envVars, tokensUsed, status, mode, err, stopped, inputs,
                 results, order, pos, levels, lvl, taskOut, runs, seqOut>>

\* lines 55-66: the result is stored, or the error is caught and stored as the
\* node's output; the loop goes on to the next node either way
stepCompleteR(throws) ==
  /\ status = "running"
  /\ mode = "seq"
  /\ task[order[pos]] = "exec"
  /\ LET nodeId == order[pos]
         result == IF throws THEN errorOutput(nodeId) ELSE OutR(nodeId, taskIn[nodeId])
     IN /\ task' = [task EXCEPT ![nodeId] = IF throws THEN "err" ELSE "ok"]
        /\ taskOut' = [taskOut EXCEPT ![nodeId] = result]
        /\ results' = put(results, nodeId, result)
        /\ pos' = pos + 1
        /\ status' = IF pos = Len(order) THEN "resolved" ELSE "running"
  /\ UNCHANGED <<extVars, adaptVars, dagVars, schedVars, envVars, tokensUsed, mode, err, stopped, inputs, order,
                 levels, lvl, taskIn, started, runs, seqOut>>

\* ---- the parallel AdaptiveExecutor (src/unnamed/part_008 lines 84-184; the
\* AdaptiveExecutor of src/src/scheduler.ts finds its ready nodes the same way)
\* part_008 line 97: maxWorkers = 10
DefaultMaxWorkers == 10

\* lines 113-123: the number of edges that end in the node
incoming(nodeId) == LET RECURSIVE sum(_)
                        sum(i) == IF i = 0 THEN 0 ELSE Count(edges[nodes[i]], nodeId) + sum(i - 1)
                    IN sum(Len(nodes))

\* line 126: Object.keys(dependencies).filter(...), in the order of the keys
RECURSIVE filterReady(_, _)
filterReady(count, i) ==
  IF i > Len(nodes) THEN <<>>
  ELSE (IF count[nodes[i]] = 0 THEN <<nodes[i]>> ELSE <<>>) \o filterReady(count, i + 1)

Min(a, b) == IF a < b THEN a ELSE b

\* lines 139-148: the tasks of a batch resolve their inputs and call
\* node.execute, one after the other
RECURSIVE launchBatch(_, _, _)
launchBatch(batch, i, st) ==
  IF i > Len(batch) THEN st
  ELSE launchBatch(batch, i + 1,
         [st EXCEPT !.task[batch[i]] = "exec",
                    !.taskIn[batch[i]] = getNodeInputsR(batch[i], results, Len(nodes)),
                    !.started = Append(@, batch[i])])

\* lines 133-137: the while test, and the batch cut from readyNodes
nextBatch(ready, tk, tkIn, st) ==
  LET batchSize == Min(Len(ready), DefaultMaxWorkers)
      batch == SubSeq(ready, 1, batchSize)
  IN [ready |-> SubSeq(ready, batchSize + 1, Len(ready)),
      st |-> launchBatch(batch, 1, [task |-> tk, taskIn |-> tkIn, started |-> st])]

\* new AdaptiveExecutor(dag, maxWorkers)
newAdaptiveExecutorR ==
  /\ status = "build"
  /\ status' = "idle"
  /\ UNCHANGED <<extVars, dagVars, schedVars, tokensUsed, runVars, envVars, adaptVars>>

\* execute(inputData) up to the first await (lines 108-170)
executeAdaptiveR ==
  /\ status = "idle"
  /\ runs = 0
  /\ LET count == [n \in Names |-> IF n \in NodeSet THEN incoming(n) ELSE 0]
         nb == nextBatch(filterReady(count, 1), NoTasks, NoMaps, <<>>)
     IN /\ mode' = "pool"
        /\ runs' = runs + 1
        /\ results' = initialOutputs
        /\ err' = "none"
        /\ depCount' = count
        /\ readyNodes' = nb.ready
        /\ task' = nb.st.task
        /\ taskIn' = nb.st.taskIn
        /\ started' = nb.st.started
        /\ taskOut' = NoMaps
        /\ status' = IF nb.st.started = <<>> THEN "resolved" ELSE "running"
  /\ UNCHANGED <<extVars, dagVars, schedVars, envVars, tokensUsed, stopped, inputs, order, pos, levels,
                 lvl, seqOut, rewriteVars>>

\* successors of a finished node: the count goes down, and an id whose count
\* reaches 0 is pushed onto readyNodes (lines 160-166)
RECURSIVE releaseSuccessors(_, _, _)
releaseSuccessors(succ, i, st) ==
  IF i > Len(succ) THEN st
  ELSE LET toId == succ[i]
           c == st.count[toId] - 1
       IN releaseSuccessors(succ, i + 1,
            [count |-> [st.count EXCEPT ![toId] = c],
             ready |-> IF c = 0 THEN Append(st.ready, toId) ELSE st.ready])

\* lines 147-166: the action of a task settles; the result, or the error as
\* the node's output, is stored, and the successors are released
completeAdaptiveR(nodeId, throws) ==
  /\ status = "running"
  /\ mode = "pool"
  /\ task[nodeId] = "exec"
  /\ LET result == IF throws THEN errorOutput(nodeId) ELSE OutR(nodeId, taskIn[nodeId])
         rel == releaseSuccessors(edges[nodeId], 1, [count |-> depCount, ready |-> readyNodes])
     IN /\ task' = [task EXCEPT ![nodeId] = IF throws THEN "err" ELSE "ok"]
        /\ taskOut' = [taskOut EXCEPT ![nodeId] = result]
        /\ results' = put(results, nodeId, result)
        /\ depCount' = rel.count
        /\ readyNodes' = rel.ready
  /\ UNCHANGED <<extVars, dagVars, schedVars, envVars, tokensUsed, status, mode, err, stopped, inputs,
                 order, pos, levels, lvl, taskIn, started, runs, seqOut, rewriteVars>>

\* line 170: Promise.all of the batch fulfils; the loop goes on with the next
\* batch, or ends and the call returns (lines 133, 173-182)
joinAdaptiveR ==
  /\ status = "running"
  /\ mode = "pool"
  /\ \A n \in Names : task[n] # "exec"
  /\ LET nb == nextBatch(readyNodes, task, taskIn, started)
     IN /\ readyNodes' = nb.ready
        /\ task' = nb.st.task
        /\ taskIn' = nb.st.taskIn
        /\ started' = nb.st.started
        /\ status' = IF readyNodes = <<>> THEN "resolved" ELSE "running"
  /\ UNCHANGED <<extVars, dagVars, schedVars, envVars, tokensUsed, mode, err, stopped, inputs, results,
                 order, pos, levels, lvl, taskOut, runs, seqOut, depCount, rewriteVars>>

\* ---- the AdaptiveExecutor with rewrite rules (src/src/patch.ts lines 39-137)
\* A Graph is written as the sequence of the names of the rules whose
\* transforms have changed it, the Graph handed to the constructor being <<>>.
MaxRules == 2
MaxMods == 2

\* options.maxModifications left out
Undefined == -1

TriggerOutcomes == {"true", "false", "throws"}

\* lines 49-55: a rule has a trigger, an action and a name; inPlace tells
\* whether the action changes the Graph it is given and returns it, or returns
\* a changed copy of it
RewriteRule(name, inPlace) == [name |-> name, inPlace |-> inPlace]

NoState == [inputs |-> EmptyMap, outputs |-> EmptyMap]

NoRound == [outcome |-> "none", trig |-> <<>>, act |-> "none", applied |-> 0]

NoResult == [state |-> NoState, modificationHistory |-> <<>>, finalDag |-> <<>>,
             totalModifications |-> -1]

\* Graph.copy(): a new Graph with the same nodes and edges that shares no
\* state with the Graph it was made from
dagAlias(dag) == [graph |-> dag, shared |-> TRUE]

dagCopy(dag) == [graph |-> dag, shared |-> FALSE]

\* scheduler.execute(dag, inputs) fulfils: one output per node, the nodes
\* being those of the base Graph (key 0) and one per transform applied
schedulerResult(dag, inp) ==
  [k \in {0} \cup {dag[i] : i \in DOMAIN dag} |-> <<k, inp>>]

\* line 89: the test of the while loop
mayModifyAtLimit(count) == count <= maxModifications

mayModify(count) == count < maxModifications

\* lines 100-109: the rules whose trigger returned true, in list order; a
\* trigger that throws is passed over
RECURSIVE evaluateUntilThrow(_, _)
evaluateUntilThrow(trig, i) ==
  IF i > Len(trig) \/ trig[i] = "throws" THEN <<>>
  ELSE (IF trig[i] = "true" THEN <<i>> ELSE <<>>) \o evaluateUntilThrow(trig, i + 1)

RECURSIVE evaluate(_, _)
evaluate(trig, i) ==
  IF i > Len(trig) THEN <<>>
  ELSE (IF trig[i] = "true" THEN <<i>> ELSE <<>>) \o evaluate(trig, i + 1)

\* line 115
lastTriggered(triggered) == triggered[Len(triggered)]

ruleToApply(triggered) == triggered[1]

\* lines 119-123
modification(rule, count, state) ==
  [ruleName |-> rule.name, modificationCount |-> count, triggerState |-> state]

\* lines 116-127: the action of the rule is called; when it throws nothing
\* has been assigned and the loop is left
applyCounted(i, state, act) ==
  [graph |-> currentDag, shared |-> currentIsBase, base |-> baseDag,
   count |-> modificationCount + 1,
   history |-> Append(modificationHistory,
                      modification(rewriteRules[i], modificationCount + 1, state)),
   failed |-> act = "throws"]

apply(i, state, act) ==
  IF act = "throws"
  THEN [graph |-> currentDag, shared |-> currentIsBase, base |-> baseDag,
        count |-> modificationCount, history |-> modificationHistory, failed |-> TRUE]
  ELSE LET rule == rewriteRules[i]
           newDag == Append(currentDag, rule.name)
       IN [graph |-> newDag,
           shared |-> rule.inPlace /\ currentIsBase,
           base |-> IF rule.inPlace /\ currentIsBase THEN newDag ELSE baseDag,
           count |-> modificationCount + 1,
           history |-> Append(modificationHistory,
                              modification(rule, modificationCount + 1, state)),
           failed |-> FALSE]

\* lines 130-135: the object the call returns
returnValue(state, history, dag, count) ==
  [state |-> state, modificationHistory |-> history, finalDag |-> dag,
   totalModifications |-> count]

\* lines 68-77: new AdaptiveExecutor(baseDag, rewriteRules, options)
newAdaptiveExecutor(rules, option) ==
  /\ pc = "none"
  /\ rewriteRules' = rules
  /\ maxModifications' = IF option = Undefined THEN DefaultMaxModifications ELSE option
  /\ pc' = "idle"
  /\ UNCHANGED <<extVars, dagVars, schedVars, clockVars, envVars, tokensUsed, status, runVars,
                 poolVars, baseDag,
                 currentDag, currentIsBase, modificationCount, modificationHistory,
                 executionState, executed, round, returned, calls>>

\* lines 79-81
addRule(rule) ==
  /\ pc # "none"
  /\ rewriteRules' = Append(rewriteRules, rule)
  /\ UNCHANGED <<extVars, dagVars, schedVars, clockVars, envVars, tokensUsed, status, runVars,
                 poolVars, maxModifications,
                 baseDag, pc, currentDag, currentIsBase, modificationCount,
                 modificationHistory, executionState, executed, round, returned, calls>>

\* lines 83-91: execute(inputs) up to the first await, or to its return when
\* the loop is not entered
executeAdaptive(inp) ==
  /\ pc \in {"idle", "returned", "rejected"}
  /\ LET first == dagCopy(baseDag)
         state == [inputs |-> inp, outputs |-> EmptyMap]
     IN /\ calls' = calls + 1
        /\ currentDag' = first.graph
        /\ currentIsBase' = first.shared
        /\ modificationCount' = 0
        /\ modificationHistory' = <<>>
        /\ executionState' = state
        /\ round' = NoRound
        /\ IF mayModify(0)
           THEN /\ pc' = "running"
                /\ executed' = <<first.graph>>
                /\ returned' = NoResult
           ELSE /\ pc' = "returned"
                /\ executed' = <<>>
                /\ returned' = returnValue(state, <<>>, first.graph, 0)
  /\ UNCHANGED <<extVars, dagVars, schedVars, clockVars, envVars, tokensUsed, status, runVars,
                 poolVars, rewriteRules,
                 maxModifications, baseDag>>

\* lines 91-135: scheduler.execute settles (fulfilled, rejected with
\* StopExecution, rejected with another error); trig holds what the trigger
\* of each rule does on the state of this round and act what the action of
\* the rule to apply does
schedulerSettles(outcome, trig, act) ==
  /\ pc = "running"
  /\ LET state == IF outcome = "ok"
                  THEN [executionState EXCEPT
                          !.outputs = assign(@, schedulerResult(currentDag, executionState.inputs))]
                  ELSE executionState
         triggered == IF outcome = "ok" THEN evaluate(trig, 1) ELSE <<>>
         called == triggered # <<>>
         step == IF called
                 THEN apply(ruleToApply(triggered), state, act)
                 ELSE [graph |-> currentDag, shared |-> currentIsBase, base |-> baseDag,
                       count |-> modificationCount, history |-> modificationHistory,
                       failed |-> FALSE]
         again == called /\ ~step.failed /\ mayModify(step.count)
     IN /\ round' = [outcome |-> outcome, trig |-> trig,
                     act |-> IF called THEN act ELSE "none",
                     applied |-> IF called /\ ~step.failed THEN ruleToApply(triggered) ELSE 0]
        /\ executionState' = state
        /\ currentDag' = step.graph
        /\ currentIsBase' = step.shared
        /\ baseDag' = step.base
        /\ modificationCount' = step.count
        /\ modificationHistory' = step.history
        /\ IF outcome = "throw"
           THEN /\ pc' = "rejected"
                /\ UNCHANGED <<executed, returned>>
           ELSE IF again
           THEN /\ pc' = "running"
                /\ executed' = Append(executed, step.graph)
                /\ UNCHANGED returned
           ELSE /\ pc' = "returned"
                /\ returned' = returnValue(state, step.history, step.graph, step.count)
                /\ UNCHANGED executed
  /\ UNCHANGED <<extVars, dagVars, schedVars, clockVars, envVars, tokensUsed, status, runVars,
                 poolVars, rewriteRules,
                 maxModifications, calls>>

\* ---- what the caller of execute or executeParallel receives
\* part_007 lines 123, 209: throw new Error('Token budget exceeded'); the
\* Error object has its message and no other property of the run
budgetError == [message |-> "Token budget exceeded"]

\* the value the rejected call hands to its caller: the error thrown by the
\* budget check, or the error of the cycle check or of the node
rejection == IF err = "budget" THEN budgetError ELSE [message |-> err]

\* ---- getNodeInputs and the field mappings of edges
\* The output of a node is an object with some of the fields 1..MaxFields;
\* the value of field f of node d is written <<d, f>>.
MaxFields == 2

Fields == 1..MaxFields

\* a field mapping {src: dst, ...}, or none
NoMapping == [has |-> FALSE, map |-> EmptyMap]

Mapping(m) == [has |-> TRUE, map |-> m]

Mappings == {NoMapping} \cup {Mapping(m) : m \in UNION {[F -> Fields] : F \in SUBSET Fields}}

NoCall == [nodeId |-> 0, outputs |-> EmptyMap, inputs |-> EmptyMap]

\* dag.ts addEdge(from, to, metadata), lines 50-66: the metadata is not
\* stored; edgeMappings keeps what the caller gave for the edge
addEdgeMetadata(from, to, metadata) ==
  /\ status = "build"
  /\ from \in NodeSet
  /\ to \in NodeSet
  /\ IF includes(edges[from], to)
     THEN UNCHANGED edges
     ELSE /\ SumLen(edges, Names) < MaxEdges
          /\ edges' = [edges EXCEPT ![from] = Append(@, to)]
  /\ edgeMappings' = [edgeMappings EXCEPT ![from][to] = metadata]
  /\ UNCHANGED <<nodes, dependencies, tokenCost, g2, schedVars, tokensUsed, status, runVars,
                 envVars, adaptVars, planVars, got, resVars, nameVars>>

\* dag.ts getNodeInputs(nodeId, nodeResults), lines 104-125, for a node
\* without inputs of its own: the results of its dependencies are merged
RECURSIVE combineInputs(_, _, _)
combineInputs(deps, nodeResults, i) ==
  IF i = 0 THEN EmptyMap
  ELSE LET depId == deps[i]
           before == combineInputs(deps, nodeResults, i - 1)
       IN IF depId \in DOMAIN nodeResults THEN assign(before, nodeResults[depId]) ELSE before

getNodeInputs(nodeId, nodeResults) ==
  IF nodeId \in NodeSet
  THEN combineInputs(dependencies[nodeId], nodeResults, Len(dependencies[nodeId]))
  ELSE EmptyMap

\* inputs = dag.getNodeInputs(nodeId, nodeResults)
callGetNodeInputs(nodeId, nodeResults) ==
  /\ got = NoCall
  /\ got' = [nodeId |-> nodeId, outputs |-> nodeResults,
             inputs |-> getNodeInputs(nodeId, nodeResults)]
  /\ UNCHANGED <<dagVars, schedVars, tokensUsed, status, runVars, envVars, adaptVars,
                 planVars, edgeMappings, resVars, nameVars>>

\* part_004 addEdge(fromNodeId, toNodeId, mapping), lines 86-111
addEdgeMappedR(fromNodeId, toNodeId, mapping) ==
  /\ status = "build"
  /\ fromNodeId \in NodeSet
  /\ toNodeId \in NodeSet
  /\ IF includes(edges[fromNodeId], toNodeId)
     THEN UNCHANGED edges
     ELSE /\ SumLen(edges, Names) < MaxEdges
          /\ edges' = [edges EXCEPT ![fromNodeId] = Append(@, toNodeId)]
  /\ edgeMappings' = IF mapping.has
                     THEN [edgeMappings EXCEPT ![fromNodeId][toNodeId] = mapping]
                     ELSE edgeMappings
  /\ UNCHANGED <<nodes, dependencies, tokenCost, g2, schedVars, tokensUsed, status, runVars,
                 envVars, adaptVars, planVars, got, resVars, nameVars>>

\* part_004 lines 197-201: the mapped fields that the output has
applyMapping(mapping, output) ==
  LET keys == {src \in DOMAIN mapping : src \in DOMAIN output}
      dsts == {mapping[src] : src \in keys}
  IN [dstKey \in dsts |->
        output[CHOOSE src \in keys : mapping[src] = dstKey /\
                 \A other \in keys : mapping[other] = dstKey => other <= src]]

\* part_004 getNodeInputs, lines 179-210, for edges without a condition
RECURSIVE getNodeInputsMapped(_, _, _)
getNodeInputsMapped(nodeId, outputs, i) ==
  IF i = 0 THEN EmptyMap
  ELSE LET fromNodeId == nodes[i]
           before == getNodeInputsMapped(nodeId, outputs, i - 1)
           mapping == edgeMappings[fromNodeId][nodeId]
       IN IF ~includes(edges[fromNodeId], nodeId) THEN before
          ELSE IF mapping.has
               THEN IF fromNodeId \in DOMAIN outputs
                    THEN assign(before, applyMapping(mapping.map, outputs[fromNodeId]))
                    ELSE before
               ELSE IF fromNodeId \in DOMAIN outputs
                    THEN assign(before, outputs[fromNodeId])
                    ELSE before

callGetNodeInputsR(nodeId, outputs) ==
  /\ got = NoCall
  /\ got' = [nodeId |-> nodeId, outputs |-> outputs,
             inputs |-> getNodeInputsMapped(nodeId, outputs, Len(nodes))]
  /\ UNCHANGED <<dagVars, schedVars, tokensUsed, status, runVars, envVars, adaptVars,
                 planVars, edgeMappings, resVars, nameVars>>

\* ---- PlanParser (src/unnamed/part_010 lines 236-370) on the DAG of dag.ts
\* A plan text is a sequence of characters: "nl" a newline, "sp" a blank,
\* "w" a word, "tool" a text that /tool\s*:\s*(\w+)/i matches.
MaxPlan == 5

PlanChars == {"nl", "sp", "w", "tool"}

\* line 250: plan.split(/\r?\n+/): the pieces between the runs of newlines
RECURSIVE split(_, _, _, _)
split(text, i, piece, inRun) ==
  IF i > Len(text) THEN <<piece>>
  ELSE IF text[i] = "nl"
       THEN IF inRun THEN split(text, i + 1, piece, TRUE)
            ELSE <<piece>> \o split(text, i + 1, <<>>, TRUE)
       ELSE split(text, i + 1, Append(piece, text[i]), FALSE)

\* line 250: l.trim()
RECURSIVE trimStart(_)
trimStart(l) == IF l # <<>> /\ Head(l) = "sp" THEN trimStart(Tail(l)) ELSE l

trim(l) == Reverse(trimStart(Reverse(trimStart(l))))

\* line 250: .map((l) => l.trim()).filter(Boolean)
RECURSIVE trimmedLines(_, _)
trimmedLines(pieces, i) ==
  IF i > Len(pieces) THEN <<>>
  ELSE (IF trim(pieces[i]) = <<>> THEN <<>> ELSE <<trim(pieces[i])>>)
         \o trimmedLines(pieces, i + 1)

planLines(text) == trimmedLines(split(text, 1, <<>>, FALSE), 1)

\* lines 256-264: a ToolNode when the line matches the tool pattern
typeOfLine(line) == IF includes(line, "tool") THEN "tool" ELSE "llm"

\* a Graph as a value
NewDag == [nodes |-> <<>>, dependencies |-> [n \in Names |-> <<>>],
           edges |-> [n \in Names |-> <<>>], nodeType |-> [n \in Names |-> "none"]]

\* dag.ts addNode (lines 29-41) and addEdge (lines 50-66) on a Graph value
withNode(dag, name, deps, type) ==
  [nodes |-> IF includes(dag.nodes, name) THEN dag.nodes ELSE Append(dag.nodes, name),
   dependencies |-> [dag.dependencies EXCEPT ![name] = deps],
   edges |-> pushDeps([dag.edges EXCEPT ![name] = <<>>],
                      {dag.nodes[i] : i \in 1..Len(dag.nodes)} \cup {name}, deps, 1, name),
   nodeType |-> [dag.nodeType EXCEPT ![name] = type]]

withEdge(dag, from, to) ==
  IF includes(dag.edges[from], to) THEN dag
  ELSE [dag EXCEPT !.edges[from] = Append(@, to)]

\* lines 251-270: one node per line, an edge from the node of the line before
RECURSIVE parseLines(_, _, _)
parseLines(lines, stepIndex, dag) ==
  IF stepIndex > Len(lines) THEN dag
  ELSE LET id == stepIndex
           added == withNode(dag, id, <<>>, typeOfLine(lines[stepIndex]))
       IN parseLines(lines, stepIndex + 1,
                     IF stepIndex > 1 THEN withEdge(added, stepIndex - 1, id) ELSE added)

\* lines 246-271, 316: PlanParser.parse of a string plan
parseString(text) == parseLines(planLines(text), 1, NewDag)

\* dag = PlanParser.parse(text)
parse(text) ==
  /\ status = "build"
  /\ nodes = <<>>
  /\ plans = <<>>
  /\ LET dag == parseString(text)
     IN /\ nodes' = dag.nodes
        /\ dependencies' = dag.dependencies
        /\ edges' = dag.edges
        /\ nodeType' = dag.nodeType
  /\ plans' = <<text>>
  /\ UNCHANGED <<tokenCost, g2, schedVars, envVars, tokensUsed, status, runVars, adaptVars,
                 inputVars, resVars, nameVars>>

\* dag.ts getRootsAndLeaves (lines 194-212): roots are the nodes whose
\* dependencies list is empty, leaves the nodes whose adjacency list is empty
getRootsAndLeaves(dag) ==
  [roots |-> SelectSeq(dag.nodes, LAMBDA n : Len(dag.dependencies[n]) = 0),
   leaves |-> SelectSeq(dag.nodes, LAMBDA n : Len(dag.edges[n]) = 0)]

\* part_010 lines 333-336: idMap[name] = `p${index + 1}_${name}`; the prefixed
\* name of node `name` of a plan is the number offset + name, offset being the
\* number of nodes of the plans before it
idMap(offset, name) == offset + name

\* part_010 lines 338-344: every node of the partial Graph is cloned, renamed
\* and added with its dependencies renamed
RECURSIVE mergeNodes(_, _, _, _)
mergeNodes(merged, partial, offset, i) ==
  IF i > Len(partial.nodes) THEN merged
  ELSE LET name == partial.nodes[i]
           deps == partial.dependencies[name]
       IN mergeNodes(withNode(merged, idMap(offset, name),
                              [k \in 1..Len(deps) |-> idMap(offset, deps[k])],
                              partial.nodeType[name]),
                     partial, offset, i + 1)

\* part_010 lines 346-350: every edge of the partial Graph is added renamed
RECURSIVE mergeEdges(_, _, _, _, _)
mergeEdges(merged, partial, offset, i, j) ==
  IF i > Len(partial.nodes) THEN merged
  ELSE LET from == partial.nodes[i]
           targets == partial.edges[from]
       IN IF j > Len(targets) THEN mergeEdges(merged, partial, offset, i + 1, 1)
          ELSE mergeEdges(withEdge(merged, idMap(offset, from), idMap(offset, targets[j])),
                          partial, offset, i, j + 1)

\* part_010 lines 355-361: an edge from every previous leaf to every root
RECURSIVE linkPlans(_, _, _, _, _)
linkPlans(merged, previousLeaves, renamedRoots, i, j) ==
  IF i > Len(previousLeaves) THEN merged
  ELSE IF j > Len(renamedRoots) THEN linkPlans(merged, previousLeaves, renamedRoots, i + 1, 1)
  ELSE linkPlans(withEdge(merged, previousLeaves[i], renamedRoots[j]),
                 previousLeaves, renamedRoots, i, j + 1)

\* part_010 lines 329-364: the body of plans.forEach from plan `index` on;
\* previousLeaves is <<>> while it is null (nothing to link then either)
RECURSIVE mergePlans(_, _, _, _, _)
mergePlans(texts, index, merged, previousLeaves, offset) ==
  IF index > Len(texts) THEN merged
  ELSE LET partial == parseString(texts[index])
           withNodes == mergeNodes(merged, partial, offset, 1)
           withEdges == mergeEdges(withNodes, partial, offset, 1, 1)
           rl == getRootsAndLeaves(partial)
           renamedRoots == [k \in 1..Len(rl.roots) |-> idMap(offset, rl.roots[k])]
           renamedLeaves == [k \in 1..Len(rl.leaves) |-> idMap(offset, rl.leaves[k])]
       IN mergePlans(texts, index + 1,
                     linkPlans(withEdges, previousLeaves, renamedRoots, 1, 1),
                     renamedLeaves, offset + Len(partial.nodes))

\* dag = PlanParser.parseMultiple(texts) (part_010 lines 325-369)
parseMultiple(texts) ==
  /\ status = "build"
  /\ nodes = <<>>
  /\ plans = <<>>
  /\ LET dag == mergePlans(texts, 1, NewDag, <<>>, 0)
     IN /\ nodes' = dag.nodes
        /\ dependencies' = dag.dependencies
        /\ edges' = dag.edges
        /\ nodeType' = dag.nodeType
  /\ plans' = texts
  /\ UNCHANGED <<tokenCost, g2, schedVars, envVars, tokensUsed, status, runVars, adaptVars,
                 inputVars, resVars, nameVars>>

\* ---- ResourceTracker (src/src/scheduler.ts lines 83-201)
\* CPU amounts are counted in tenths of a core, memory and GPU memory in MB.
MaxUnits == 2

\* line 113: constructor(totalCPU = 4, totalMemoryMB = 8192, totalGPUMemoryMB = 4096)
DefaultTotalCPU == 40
DefaultTotalMemoryMB == 8192
DefaultTotalGPUMemoryMB == 4096

\* lines 132-134: resources.cpu || 0.1, resources.memory || 10, resources.gpu || 0
DefaultCPU == 1
DefaultMemory == 10
DefaultGPU == 0

\* nodes.ts lines 13-41: the constraints the executor reads; a resource
\* amount of 0 stands for an amount left out as well (|| treats both alike)
NoConstraints == [resources |-> [cpu |-> 0, memory |-> 0, gpu |-> 0],
                  maxConcurrency |-> Undefined]

\* lines 113-121: the tracker as the constructor leaves it
ResourceTracker(totalCPU, totalMemoryMB, totalGPUMemoryMB) ==
  [totalCPU |-> totalCPU, totalMemoryMB |-> totalMemoryMB,
   totalGPUMemoryMB |-> totalGPUMemoryMB,
   usedCPU |-> 0, usedMemoryMB |-> 0, usedGPUMemoryMB |-> 0,
   activeExecutions |-> EmptyMap]

NoTracker == ResourceTracker(0, 0, 0)

NoTrackerCall == [op |-> "none", nodeId |-> 0, returned |-> FALSE, before |-> NoTracker,
                  repeated |-> FALSE]

\* lines 131-134 and 155-158: the amounts a node asks for
required(c) ==
  [cpu |-> IF c.resources.cpu = 0 THEN DefaultCPU ELSE c.resources.cpu,
   memory |-> IF c.resources.memory = 0 THEN DefaultMemory ELSE c.resources.memory,
   gpu |-> IF c.resources.gpu = 0 THEN DefaultGPU ELSE c.resources.gpu]

\* lines 130-141
hasResourcesFor(tracker, c) ==
  LET r == required(c)
  IN /\ tracker.usedCPU + r.cpu <= tracker.totalCPU
     /\ tracker.usedMemoryMB + r.memory <= tracker.totalMemoryMB
     /\ tracker.usedGPUMemoryMB + r.gpu <= tracker.totalGPUMemoryMB

\* lines 150-172: the tracker after allocate, and what allocate returns
allocate(tracker, nodeId, c) ==
  IF ~hasResourcesFor(tracker, c) THEN [tracker |-> tracker, returned |-> FALSE]
  ELSE LET r == required(c)
       IN [tracker |-> [tracker EXCEPT
                          !.usedCPU = @ + r.cpu,
                          !.usedMemoryMB = @ + r.memory,
                          !.usedGPUMemoryMB = @ + r.gpu,
                          !.activeExecutions = put(@, nodeId, r)],
           returned |-> TRUE]

\* lines 179-187: the tracker after release
release(tracker, nodeId) ==
  IF nodeId \in DOMAIN tracker.activeExecutions
  THEN LET r == tracker.activeExecutions[nodeId]
       IN [tracker EXCEPT
             !.usedCPU = @ - r.cpu,
             !.usedMemoryMB = @ - r.memory,
             !.usedGPUMemoryMB = @ - r.gpu,
             !.activeExecutions = [x \in (DOMAIN @) \ {nodeId} |-> @[x]]]
  ELSE tracker

\* tracker = new ResourceTracker(totalCPU, totalMemoryMB, totalGPUMemoryMB)
newResourceTracker(totalCPU, totalMemoryMB, totalGPUMemoryMB) ==
  /\ trackerCall.op = "none"
  /\ resourceTracker' = ResourceTracker(totalCPU, totalMemoryMB, totalGPUMemoryMB)
  /\ trackerCall' = [NoTrackerCall EXCEPT !.op = "new"]
  /\ UNCHANGED <<dagVars, schedVars, envVars, tokensUsed, status, runVars, adaptVars,
                 planVars, inputVars, constraints, maxWorkers, typeConcurrencyLimits,
                 typeConcurrentExecutions, runningPromises, awaiting, nameVars>>

\* tracker.allocate(nodeId, constraints)
callAllocate(nodeId, c) ==
  /\ trackerCall.op # "none"
  /\ status = "build"
  /\ LET a == allocate(resourceTracker, nodeId, c)
     IN /\ resourceTracker' = a.tracker
        /\ trackerCall' = [op |-> "allocate", nodeId |-> nodeId, returned |-> a.returned,
                           before |-> resourceTracker,
                           repeated |-> trackerCall.repeated \/
                             (a.returned /\ nodeId \in DOMAIN resourceTracker.activeExecutions)]
  /\ UNCHANGED <<dagVars, schedVars, envVars, tokensUsed, status, runVars, adaptVars,
                 planVars, inputVars, constraints, maxWorkers, typeConcurrencyLimits,
                 typeConcurrentExecutions, runningPromises, awaiting, nameVars>>

\* tracker.release(nodeId)
callRelease(nodeId) ==
  /\ trackerCall.op # "none"
  /\ status = "build"
  /\ resourceTracker' = release(resourceTracker, nodeId)
  /\ trackerCall' = [trackerCall EXCEPT !.op = "release", !.nodeId = nodeId,
                                        !.returned = FALSE, !.before = resourceTracker]
  /\ UNCHANGED <<dagVars, schedVars, envVars, tokensUsed, status, runVars, adaptVars,
                 planVars, inputVars, constraints, maxWorkers, typeConcurrencyLimits,
                 typeConcurrentExecutions, runningPromises, awaiting, nameVars>>

\* ---- the constraint-aware AdaptiveExecutor (src/src/scheduler.ts lines
\* 206-499) on the Record-based DAG of part_004
\* lines 240-246: the limits the constructor sets, by node type
DefaultTypeConcurrencyLimits == [llm |-> 5, tool |-> 8, memory |-> 10, input |-> 10, output |-> 10]

\* lines 249-255: the counters the constructor sets
NoExecutions == [llm |-> 0, tool |-> 0, memory |-> 0, input |-> 0, output |-> 0]

\* lines 288 and 312: this.typeConcurrencyLimits[node.nodeType] || this.maxWorkers
typeConcurrencyLimit(type) ==
  IF type \in DOMAIN typeConcurrencyLimits /\ typeConcurrencyLimits[type] # 0
    THEN typeConcurrencyLimits[type]
    ELSE maxWorkers

\* lines 289 and 313: this.typeConcurrentExecutions[node.nodeType] || 0
typeConcurrency(counts, type) == IF type \in DOMAIN counts THEN counts[type] ELSE 0

\* a check that leaves the limit of the node's type out
canExecuteNodeAnyType(counts, tracker, nodeId) ==
  LET type == nodeType[nodeId]
      c == constraints[nodeId]
  IN /\ ~(c.maxConcurrency # Undefined /\ type \in DOMAIN counts
                                       /\ counts[type] >= c.maxConcurrency)
     /\ hasResourcesFor(tracker, c)

\* lines 307-327
canExecuteNode(counts, tracker, nodeId) ==
  LET type == nodeType[nodeId]
      c == constraints[nodeId]
  IN /\ typeConcurrency(counts, type) < typeConcurrencyLimit(type)
     /\ ~(c.maxConcurrency # Undefined /\ type \in DOMAIN counts
                                       /\ counts[type] >= c.maxConcurrency)
     /\ hasResourcesFor(tracker, c)

\* lines 265-292: the priority of a ready node as the fraction num / den,
\* doubled (constraints.priority and maxLatency are left out by every node)
priorityOf(counts, nodeId) ==
  LET type == nodeType[nodeId]
      base == (IF type = "llm" THEN 2 ELSE IF type = "tool" THEN 1 ELSE 0)
                + (IF constraints[nodeId].resources.gpu # 0 THEN 4 ELSE 0)
      limit == typeConcurrencyLimit(type)
  IN [num |-> base * (limit - typeConcurrency(counts, type)), den |-> limit]

higher(a, b) == a.num * b.den > b.num * a.den

\* lines 295-298: sort by priority, descending; equal priorities keep their order
RECURSIVE prioritizeNodes(_, _, _)
prioritizeNodes(ready, counts, i) ==
  IF i = 0 THEN <<>>
  ELSE LET sorted == prioritizeNodes(ready, counts, i - 1)
           p == priorityOf(counts, ready[i])
           keep == Cardinality({k \in 1..Len(sorted) : ~higher(p, priorityOf(counts, sorted[k]))})
       IN SubSeq(sorted, 1, keep) \o <<ready[i]>> \o SubSeq(sorted, keep + 1, Len(sorted))

\* lines 371-393 and 447-462: a node is admitted; its counter goes up, its
\* resources are allocated, it leaves the ready list and its action is invoked
startNode(st, nodeId) ==
  LET type == nodeType[nodeId]
  IN [st EXCEPT
        !.counts = put(@, type, typeConcurrency(@, type) + 1),
        !.tracker = allocate(@, nodeId, constraints[nodeId]).tracker,
        !.ready = SelectSeq(@, LAMBDA id : id # nodeId),
        !.running = @ \cup {nodeId},
        !.task[nodeId] = "exec",
        !.taskIn[nodeId] = getNodeInputsR(nodeId, results, Len(nodes)),
        !.started = Append(@, nodeId)]

\* lines 369-410: the pass over the prioritized nodes, up to the break
RECURSIVE schedule(_, _, _)
schedule(prioritized, i, st) ==
  IF i > Len(prioritized) THEN st
  ELSE IF canExecuteNode(st.counts, st.tracker, prioritized[i])
       THEN LET next == startNode(st, prioritized[i])
            IN IF Cardinality(next.running) >= maxWorkers THEN next
               ELSE schedule(prioritized, i + 1, next)
       ELSE schedule(prioritized, i + 1, st)

\* lines 364-422: the loop from its test to the next await or to the return
loop(st) ==
  IF st.ready = <<>> /\ st.running = {}
    THEN [st EXCEPT !.status = "resolved", !.awaiting = "none"]
    ELSE LET next == schedule(prioritizeNodes(st.ready, st.counts, Len(st.ready)), 1, st)
         IN IF next.running # {} THEN [next EXCEPT !.status = "running", !.awaiting = "race"]
            ELSE IF next.ready # <<>> THEN [next EXCEPT !.status = "running", !.awaiting = "timer"]
            ELSE [next EXCEPT !.status = "resolved", !.awaiting = "none"]

\* the state of a call as loop leaves it
continue(st) ==
  /\ readyNodes' = st.ready
  /\ typeConcurrentExecutions' = st.counts
  /\ resourceTracker' = st.tracker
  /\ runningPromises' = st.running
  /\ task' = st.task
  /\ taskIn' = st.taskIn
  /\ started' = st.started
  /\ status' = st.status
  /\ awaiting' = st.awaiting

\* part_004 addNode of a node made with a type and constraints (nodes.ts
\* lines 72-83)
addNodeC(type, c) ==
  /\ status = "build"
  /\ Len(nodes) < MaxNodes
  /\ LET id == Len(nodes) + 1 IN
       /\ nodes' = Append(nodes, id)
       /\ edges' = [edges EXCEPT ![id] = <<>>]
       /\ nodeType' = [nodeType EXCEPT ![id] = type]
       /\ constraints' = [constraints EXCEPT ![id] = c]
  /\ UNCHANGED <<dependencies, tokenCost, g2, schedVars, envVars, tokensUsed, status, runVars,
                 adaptVars, plans, inputVars, resourceTracker, trackerCall, maxWorkers,
                 typeConcurrencyLimits, typeConcurrentExecutions, runningPromises, awaiting, nameVars>>

\* new AdaptiveExecutor(dag, maxWorkers, resourceTracker) (lines 234-256);
\* without a tracker made before, the executor makes one with the default totals
newAdaptiveExecutorC(workers) ==
  /\ status = "build"
  /\ status' = "idle"
  /\ maxWorkers' = workers
  /\ resourceTracker' = IF trackerCall.op = "none"
                          THEN ResourceTracker(DefaultTotalCPU, DefaultTotalMemoryMB,
                                               DefaultTotalGPUMemoryMB)
                          ELSE resourceTracker
  /\ typeConcurrencyLimits' = DefaultTypeConcurrencyLimits
  /\ typeConcurrentExecutions' = NoExecutions
  /\ UNCHANGED <<dagVars, schedVars, envVars, tokensUsed, runVars, adaptVars, planVars,
                 inputVars, trackerCall, constraints, runningPromises, awaiting, nameVars>>

\* executor.typeConcurrencyLimits[type] = limit (the field is public)
setTypeConcurrencyLimit(type, limit) ==
  /\ status = "idle"
  /\ runs = 0
  /\ typeConcurrencyLimits[type] # limit
  /\ typeConcurrencyLimits' = [typeConcurrencyLimits EXCEPT ![type] = limit]
  /\ UNCHANGED <<dagVars, schedVars, envVars, tokensUsed, status, runVars, adaptVars, planVars,
                 inputVars, resourceTracker, trackerCall, constraints, maxWorkers,
                 typeConcurrentExecutions, runningPromises, awaiting, nameVars>>

\* execute(inputData) up to the first await (lines 335-416)
executeC ==
  /\ status = "idle"
  /\ runs = 0
  /\ LET count == [n \in Names |-> IF n \in NodeSet THEN incoming(n) ELSE 0]
     IN /\ depCount' = count
        /\ continue(loop([ready |-> filterReady(count, 1), counts |-> typeConcurrentExecutions,
                          tracker |-> resourceTracker, running |-> {}, task |-> NoTasks,
                          taskIn |-> NoMaps, started |-> <<>>, status |-> "running",
                          awaiting |-> "none"]))
  /\ mode' = "res"
  /\ runs' = runs + 1
  /\ results' = initialOutputs
  /\ err' = "none"
  /\ taskOut' = NoMaps
  /\ UNCHANGED <<dagVars, schedVars, envVars, tokensUsed, stopped, inputs, order, pos, levels,
                 lvl, seqOut, rewriteVars, planVars, inputVars, trackerCall, constraints,
                 maxWorkers, typeConcurrencyLimits, nameVars>>

\* lines 387-403 and 461-497: the action of a node settles; its output, or
\* its error as the output, is stored, its successors are counted down, its
\* resources are released, its counter goes down and its promise is removed
completeC(nodeId, throws) ==
  /\ status = "running"
  /\ mode = "res"
  /\ task[nodeId] = "exec"
  /\ LET result == IF throws THEN errorOutput(nodeId) ELSE OutR(nodeId, taskIn[nodeId])
         rel == releaseSuccessors(edges[nodeId], 1, [count |-> depCount, ready |-> readyNodes])
         type == nodeType[nodeId]
     IN /\ task' = [task EXCEPT ![nodeId] = IF throws THEN "err" ELSE "ok"]
        /\ taskOut' = [taskOut EXCEPT ![nodeId] = result]
        /\ results' = put(results, nodeId, result)
        /\ depCount' = rel.count
        /\ readyNodes' = rel.ready
        /\ resourceTracker' = release(resourceTracker, nodeId)
        /\ typeConcurrentExecutions' = [typeConcurrentExecutions EXCEPT ![type] = @ - 1]
        /\ runningPromises' = runningPromises \ {nodeId}
        /\ awaiting' = IF awaiting = "race" THEN "raced" ELSE awaiting
  /\ UNCHANGED <<dagVars, schedVars, envVars, tokensUsed, status, mode, err, stopped, inputs,
                 order, pos, levels, lvl, taskIn, started, runs, seqOut, rewriteVars, planVars,
                 inputVars, trackerCall, constraints, maxWorkers, typeConcurrencyLimits, nameVars>>

\* lines 414-421: the promise the loop awaits is settled (a running promise
\* has resolved, or the 100 ms timer has fired) and the loop goes on
loopResumes ==
  /\ status = "running"
  /\ mode = "res"
  /\ awaiting \in {"raced", "timer"}
  /\ continue(loop([ready |-> readyNodes, counts |-> typeConcurrentExecutions,
                    tracker |-> resourceTracker, running |-> runningPromises, task |-> task,
                    taskIn |-> taskIn, started |-> started, status |-> "running",
                    awaiting |-> awaiting]))
  /\ UNCHANGED <<dagVars, schedVars, envVars, tokensUsed, mode, err, stopped, inputs, results,
                 order, pos, levels, lvl, taskOut, runs, seqOut, depCount, rewriteVars, planVars,
                 inputVars, trackerCall, constraints, maxWorkers, typeConcurrencyLimits, nameVars>>

\* ---- MultiAgentOrchestrator.findCriticalPath (src/src/multi-agent.ts lines
\* 364-440) on the Record-based DAG; durations are counted in tenths
\* line 369: nodeId.startsWith("agent_") ? 1.0 : 0.1
AgentDuration == 10
OtherDuration == 1

nodeDurations(nodeId) == IF nodeId \in agentIds THEN AgentDuration ELSE OtherDuration

\* lines 390-405: the predecessor among topoOrder[1..k-1] that gives the longest
\* time through it; pred 0 is null
RECURSIVE longestThrough(_, _, _, _, _)
longestThrough(topoOrder, nodeId, earliestCompletion, i, best) ==
  IF topoOrder[i] = nodeId THEN best
  ELSE LET predId == topoOrder[i]
           timeThroughPred == earliestCompletion[predId] + nodeDurations(nodeId)
       IN longestThrough(topoOrder, nodeId, earliestCompletion, i + 1,
            IF includes(edges[predId], nodeId) /\ timeThroughPred > best.maxTime
              THEN [maxTime |-> timeThroughPred, maxPred |-> predId]
              ELSE best)

\* lines 381-409: the pass over the topological order
RECURSIVE completionTimes(_, _, _)
completionTimes(topoOrder, k, st) ==
  IF k > Len(topoOrder) THEN st
  ELSE LET nodeId == topoOrder[k]
       IN completionTimes(topoOrder, k + 1,
            IF Len(edges[nodeId]) = 0
              THEN [earliestCompletion |-> put(st.earliestCompletion, nodeId, nodeDurations(nodeId)),
                    predecessor |-> put(st.predecessor, nodeId, 0)]
              ELSE LET best == longestThrough(topoOrder, nodeId, st.earliestCompletion, 1,
                                              [maxTime |-> 0, maxPred |-> 0])
                   IN [earliestCompletion |-> put(st.earliestCompletion, nodeId, best.maxTime),
                       predecessor |-> put(st.predecessor, nodeId, best.maxPred)])

\* lines 411-426: the first node without outgoing edges that no later one
\* exceeds, taken in the order of dag.nodes
RECURSIVE latestEnd(_, _, _, _)
latestEnd(endNodes, earliestCompletion, i, endNode) ==
  IF i > Len(endNodes) THEN endNode
  ELSE latestEnd(endNodes, earliestCompletion, i + 1,
                 IF earliestCompletion[endNodes[i]] > earliestCompletion[endNode]
                   THEN endNodes[i] ELSE endNode)

\* lines 428-436: the path pushed from the end node along predecessor
RECURSIVE pushPath(_, _)
pushPath(predecessor, current) ==
  IF current = 0 THEN <<>> ELSE <<current>> \o pushPath(predecessor, predecessor[current])

\* lines 364-440, for a Graph with a node and without a cycle (with a cycle
\* getTopologicalOrder throws at line 373)
findCriticalPath ==
  LET topoOrder == getTopologicalOrderR.order
      st == completionTimes(topoOrder, 1, [earliestCompletion |-> EmptyMap, predecessor |-> EmptyMap])
      endNodes == SelectSeq(nodes, LAMBDA nodeId : Len(edges[nodeId]) = 0)
      endNode == latestEnd(endNodes, st.earliestCompletion, 2, endNodes[1])
  IN Reverse(pushPath(st.predecessor, endNode))

\* part_004 addNode of a node with the id given: agent tells whether the id
\* starts with "agent_"
addNodeNamed(agent) ==
  /\ status = "build"
  /\ Len(nodes) < MaxNodes
  /\ LET id == Len(nodes) + 1 IN
       /\ nodes' = Append(nodes, id)
       /\ edges' = [edges EXCEPT ![id] = <<>>]
       /\ agentIds' = IF agent THEN agentIds \cup {id} ELSE agentIds
  /\ UNCHANGED <<dependencies, tokenCost, g2, schedVars, envVars, tokensUsed, status, runVars,
                 adaptVars, planVars, inputVars, resVars>>

\* ------------------------------------------------------------------ Init
Init ==
  /\ nodes = <<>>
  /\ dependencies = [n \in Names |-> <<>>]
  /\ edges = [n \in Names |-> <<>>]
  /\ tokenCost = [n \in Names |-> 0]
  /\ g2 = <<>>
  /\ tokenBudget = <<>>
  /\ maxParallelNodes = DefaultMaxParallelNodes
  /\ hooks = FALSE
  /\ auditDir = FALSE
  /\ rateLimitPerSecond = <<>>
  /\ maxExecutionTime = DefaultMaxExecutionTime
  /\ priorityNodes = {}
  /\ now = Epoch
  /\ lastExecution = 0
  /\ wake = [n \in Names |-> 0]
  /\ startedAt = [n \in Names |-> 0]
  /\ endedAt = [n \in Names |-> 0]
  /\ audit = [n \in Names |-> <<>>]
  /\ tokensUsed = 0
  /\ status = "build"
  /\ mode = "none"
  /\ err = "none"
  /\ stopped = FALSE
  /\ inputs = EmptyMap
  /\ results = EmptyMap
  /\ order = <<>>
  /\ pos = 0
  /\ levels = <<>>
  /\ lvl = 0
  /\ task = [n \in Names |-> "idle"]
  /\ taskIn = [n \in Names |-> EmptyMap]
  /\ taskOut = [n \in Names |-> EmptyMap]
  /\ started = <<>>
  /\ runs = 0
  /\ seqOut = <<>>
  /\ readyNodes = <<>>
  /\ depCount = [n \in Names |-> 0]
  /\ rewriteRules = <<>>
  /\ maxModifications = DefaultMaxModifications
  /\ baseDag = <<>>
  /\ pc = "none"
  /\ currentDag = <<>>
  /\ currentIsBase = FALSE
  /\ modificationCount = 0
  /\ modificationHistory = <<>>
  /\ executionState = NoState
  /\ executed = <<>>
  /\ round = NoRound
  /\ returned = NoResult
  /\ calls = 0
  /\ plans = <<>>
  /\ nodeType = [n \in Names |-> "none"]
  /\ edgeMappings = [f \in Names |-> [t \in Names |-> NoMapping]]
  /\ got = NoCall
  /\ resourceTracker = NoTracker
  /\ trackerCall = NoTrackerCall
  /\ constraints = [n \in Names |-> NoConstraints]
  /\ maxWorkers = DefaultMaxWorkers
  /\ typeConcurrencyLimits = DefaultTypeConcurrencyLimits
  /\ typeConcurrentExecutions = NoExecutions
  /\ runningPromises = {}
  /\ awaiting = "none"
  /\ agentIds = {}

\* ------------------------------------------------------------- actions
\* nodes without token cost / with a token cost
AddNode == \E deps \in DistinctSeqs(Names, MaxDeps) : addNode(deps, 0)

AddNodeCost == \E deps \in DistinctSeqs(Names, 1), cost \in {0, MaxCost} : addNode(deps, cost)

AddEdge == \E from \in Names, to \in Names : addEdge(from, to)

\* the size of the Graph and its copy together (before copy() is called, of
\* the Graph and the copy that will be made of it): their nodes, and their
\* edges and declared dependencies
NodesOfBoth == Len(nodes) + (IF g2 = <<>> THEN Len(nodes) ELSE Len(g2[1].nodes))

LinksOfBoth ==
  SumLen(edges, Names) + SumLen(dependencies, Names)
    + (IF g2 = <<>> THEN SumLen(edges, Names) + SumLen(dependencies, Names)
       ELSE SumLen(g2[1].edges, Names) + SumLen(g2[1].dependencies, Names))

\* what one more element of the Graph adds to that size
Weight == IF g2 = <<>> THEN 2 ELSE 1

\* the edges and declared dependencies that the two Graphs hold at most
MaxLinks == MaxEdges - 1

\* the calls on a Graph and its copy: the two together hold at most MaxNodes
\* nodes and MaxLinks edges and declared dependencies
AddNodeOriginal ==
  /\ NodesOfBoth + Weight <= MaxNodes
  /\ LET room == MaxLinks - LinksOfBoth
     IN \E deps \in DistinctSeqs(Names, 1) :
          Weight * 2 * Len(deps) <= room /\ addNode(deps, 0)

AddEdgeOriginal ==
  /\ LinksOfBoth + Weight <= MaxLinks
  /\ \E from \in NodeSet, to \in NodeSet : addEdge(from, to)

SetDependencies ==
  LET room == MaxLinks - LinksOfBoth
  IN \E name \in NodeSet, deps \in DistinctSeqs(Names, 1) :
       Weight * Len(deps) <= room /\ setDependencies(name, deps)

Copy == copy

AddNodeCopy ==
  /\ NodesOfBoth + 1 <= MaxNodes
  /\ LET room == MaxLinks - LinksOfBoth
     IN \E deps \in DistinctSeqs(Names, 1), cost \in {0, MaxCost} :
          2 * Len(deps) <= room /\ addNodeCopy(deps, cost)

AddEdgeCopy ==
  /\ LinksOfBoth + 1 <= MaxLinks
  /\ \E from \in CopyNodeSet, to \in CopyNodeSet : addEdgeCopy(from, to)

SetDependenciesCopy ==
  LET room == MaxLinks - LinksOfBoth
  IN \E name \in CopyNodeSet, deps \in DistinctSeqs(Names, 1) :
       Len(deps) <= room /\ setDependenciesCopy(name, deps)

AddNodeAgain ==
  \E name \in Names, deps \in DistinctSeqs(Names, MaxDeps), cost \in {0, MaxCost} :
    addNodeAgain(name, deps, cost)

NewScheduler == \E hk \in BOOLEAN : newScheduler([DefaultOptions EXCEPT !.hooks = hk])

NewSchedulerLimit ==
  \E mp \in 1..MaxParallel : newScheduler([DefaultOptions EXCEPT !.maxParallelNodes = mp])

NewSchedulerPlain == newScheduler(DefaultOptions)

NewSchedulerBudget ==
  \E b \in 0..MaxBudget : newScheduler([DefaultOptions EXCEPT !.tokenBudget = <<b>>])

NewSchedulerAudit ==
  \E hk \in BOOLEAN : newScheduler([DefaultOptions EXCEPT !.hooks = hk, !.auditDir = TRUE])

\* the rates whose interval 1000 / rate is a whole number of milliseconds
Rates == {r \in 1..MaxRate : MsPerSecond % r = 0}

NewSchedulerRate ==
  \E r \in Rates : newScheduler([DefaultOptions EXCEPT !.rateLimitPerSecond = <<r>>])

NewSchedulerTimeout ==
  \E ms \in {0, TickStep} : newScheduler([DefaultOptions EXCEPT !.maxExecutionTime = ms])

NewSchedulerPriority ==
  \E prio \in SUBSET Names : newScheduler([DefaultOptions EXCEPT !.priorityNodes = prio])

Execute == \E inp \in InputMaps : execute(inp)

ExecuteOnce == runs = 0 /\ Execute

ExecuteNoInputs == execute(EmptyMap)

SeqBegin == \E cont \in BOOLEAN : seqBegin(cont)

SeqComplete == \E throws \in BOOLEAN, cont \in BOOLEAN : seqComplete(throws, cont)

SeqCompleteOk == \E cont \in BOOLEAN : seqComplete(FALSE, cont)

SeqWait == seqWait

ExecuteParallel == \E inp \in InputMaps : executeParallel(inp)

ExecuteParallelOnce == runs = 0 /\ ExecuteParallel

ExecuteParallelNoInputs == executeParallel(EmptyMap)

ParBefore == \E n \in Names, cont \in BOOLEAN : parBefore(n, cont)

ParComplete == \E n \in Names, throws \in BOOLEAN : parComplete(n, throws)

ParCompleteOk == \E n \in Names : parComplete(n, FALSE)

ParAfter == \E n \in Names, cont \in BOOLEAN : parAfter(n, cont)

ParJoin == parJoin

ParWake == \E n \in Names : parWake(n)

Tick == tick

\* one call of execute or executeParallel on a graph of nodes with declared
\* dependencies; hooks may stop the run, actions may throw
Next ==
  \/ AddNode
  \/ NewScheduler
  \/ ExecuteOnce
  \/ SeqBegin
  \/ SeqComplete
  \/ ExecuteParallelOnce
  \/ ParBefore
  \/ ParComplete
  \/ ParAfter
  \/ ParJoin

Spec == Init /\ [][Next]_vars

\* one call of executeParallel on a Scheduler with maxParallelNodes configured
NextLimit ==
  \/ AddNode
  \/ NewSchedulerLimit
  \/ ExecuteParallelOnce
  \/ ParCompleteOk
  \/ ParJoin

SpecLimit == Init /\ [][NextLimit]_vars

\* a Scheduler with an audit directory, called up to MaxRuns times
NextAudit ==
  \/ AddNode
  \/ NewSchedulerAudit
  \/ ExecuteNoInputs
  \/ SeqBegin
  \/ SeqComplete
  \/ ExecuteParallelNoInputs
  \/ ParBefore
  \/ ParComplete
  \/ ParAfter
  \/ ParJoin

SpecAudit == Init /\ [][NextAudit]_vars

\* one call on a Scheduler with a rate limit, while time passes
NextRate ==
  \/ AddNode
  \/ NewSchedulerRate
  \/ ExecuteOnce
  \/ SeqWait
  \/ SeqBegin
  \/ SeqCompleteOk
  \/ ExecuteParallelOnce
  \/ ParWake
  \/ ParCompleteOk
  \/ ParJoin
  \/ Tick

SpecRate == Init /\ [][NextRate]_vars

\* one call on a Scheduler with maxExecutionTime configured, while time passes
NextTimeout ==
  \/ AddNode
  \/ NewSchedulerTimeout
  \/ ExecuteOnce
  \/ SeqBegin
  \/ SeqCompleteOk
  \/ ExecuteParallelOnce
  \/ ParCompleteOk
  \/ ParJoin
  \/ Tick

SpecTimeout == Init /\ [][NextTimeout]_vars

\* one call of executeParallel on a Scheduler with priorityNodes configured
NextPriority ==
  \/ AddNode
  \/ NewSchedulerPriority
  \/ ExecuteParallelOnce
  \/ ParCompleteOk
  \/ ParJoin

SpecPriority == Init /\ [][NextPriority]_vars

\* graphs built with addNode, with names that may be in the graph already
NextDup ==
  \/ AddNodeCost
  \/ AddNodeAgain

SpecDup == Init /\ [][NextDup]_vars

\* a Graph and its copy, both changed after the copy was made
NextCopy ==
  \/ AddNodeOriginal
  \/ AddEdgeOriginal
  \/ SetDependencies
  \/ Copy
  \/ AddNodeCopy
  \/ AddEdgeCopy
  \/ SetDependenciesCopy

SpecCopy == Init /\ [][NextCopy]_vars

\* graphs built with addNode and addEdge, run once by execute
NextDag ==
  \/ AddNode
  \/ AddEdge
  \/ NewSchedulerPlain
  \/ ExecuteOnce
  \/ SeqBegin
  \/ SeqCompleteOk

SpecDag == Init /\ [][NextDag]_vars

\* a Scheduler with a token budget, called up to MaxRuns times
NextBudget ==
  \/ AddNodeCost
  \/ NewSchedulerBudget
  \/ ExecuteNoInputs
  \/ SeqBegin
  \/ SeqCompleteOk
  \/ ExecuteParallelNoInputs
  \/ ParCompleteOk
  \/ ParJoin

SpecBudget == Init /\ [][NextBudget]_vars

\* the same Scheduler called up to MaxRuns times, no hooks, no budget
NextEquiv ==
  \/ AddNode
  \/ NewSchedulerPlain
  \/ Execute
  \/ SeqBegin
  \/ SeqCompleteOk
  \/ ExecuteParallel
  \/ ParCompleteOk
  \/ ParJoin

SpecEquiv == Init /\ [][NextEquiv]_vars

\* the Scheduler of src/src/scheduler.ts on the DAG of part_004
AddNodeR == addNodeR

AddEdgeR == \E from \in Names, to \in Names : addEdgeR(from, to)

NewSchedulerR == newSchedulerR

ExecuteR == executeR

StepBeginR == stepBeginR

StepCompleteR == \E throws \in BOOLEAN : stepCompleteR(throws)

\* the results handed to getNodeInputs: some nodes have an output, with some
\* of the fields
FieldSets == {1..k : k \in 0..MaxFields}

NodeResults(among) ==
  UNION {{[d \in S |-> [f \in have[d] |-> <<d, f>>]] : have \in [S -> FieldSets]} :
           S \in SUBSET among}

\* the nodes whose results getNodeInputs can look at
Upstream(nodeId) ==
  {d \in Names : includes(dependencies[nodeId], d) \/ includes(edges[d], nodeId)}

\* nodes that depend on nodes already in the Graph
AddNodeForInputs ==
  /\ got = NoCall
  /\ \E deps \in DistinctSeqs(NodeSet, MaxDeps - 1) : addNode(deps, 0)

\* an edge to a later node is given its metadata once
AddEdgeMetadata ==
  /\ got = NoCall
  /\ \E from \in Names, to \in Names, metadata \in Mappings :
       /\ from < to
       /\ edgeMappings[from][to] = NoMapping
       /\ metadata.has \/ ~includes(edges[from], to)
       /\ addEdgeMetadata(from, to, metadata)

CallGetNodeInputs ==
  \E nodeId \in NodeSet :
    \E nodeResults \in NodeResults(Upstream(nodeId)) : callGetNodeInputs(nodeId, nodeResults)

\* getNodeInputs of dag.ts on Graphs built with addNode and addEdge
NextInputs ==
  \/ AddNodeForInputs
  \/ AddEdgeMetadata
  \/ CallGetNodeInputs

SpecInputs == Init /\ [][NextInputs]_vars

AddNodeForInputsR == got = NoCall /\ AddNodeR

AddEdgeMappedR ==
  /\ got = NoCall
  /\ \E from \in Names, to \in Names, mapping \in Mappings :
       /\ from < to
       /\ edgeMappings[from][to] = NoMapping
       /\ mapping.has \/ ~includes(edges[from], to)
       /\ addEdgeMappedR(from, to, mapping)

CallGetNodeInputsR ==
  \E nodeId \in NodeSet :
    \E outputs \in NodeResults(Upstream(nodeId)) : callGetNodeInputsR(nodeId, outputs)

\* getNodeInputs of part_004 on Graphs built with its addNode and addEdge
NextInputsR ==
  \/ AddNodeForInputsR
  \/ AddEdgeMappedR
  \/ CallGetNodeInputsR

SpecInputsR == Init /\ [][NextInputsR]_vars

PlanTexts == UNION {[1..m -> PlanChars] : m \in 0..MaxPlan}

Parse == \E text \in {t \in PlanTexts : Len(planLines(t)) <= MaxNodes} : parse(text)

\* Graphs parsed from a plan text
NextPlan == Parse

SpecPlan == Init /\ [][NextPlan]_vars

\* the number of nodes the plans of a list parse to
RECURSIVE TotalLines(_)
TotalLines(texts) ==
  IF texts = <<>> THEN 0 ELSE Len(planLines(Head(texts))) + TotalLines(Tail(texts))

ShortPlanTexts == {t \in PlanTexts : Len(t) + 2 <= MaxPlan /\ planLines(t) # <<>>}

PlanLists == {<<t1, t2>> : t1 \in ShortPlanTexts, t2 \in ShortPlanTexts}
               \cup {<<t1, t2, t3>> : t1 \in {<<"w">>, <<"tool">>},
                                      t2 \in {<<"w">>, <<"tool">>},
                                      t3 \in {<<"w">>, <<"tool">>}}

ParseMultiple ==
  \E texts \in {l \in PlanLists : TotalLines(l) <= MaxNodes} : parseMultiple(texts)

\* Graphs merged from several plan texts
NextMerge == ParseMultiple

SpecMerge == Init /\ [][NextMerge]_vars

Amounts == 0..MaxUnits

MemoryAmounts == {DefaultMemory * k : k \in 0..MaxUnits}

ConstraintSets ==
  {[resources |-> [cpu |-> cpu, memory |-> memory, gpu |-> gpu], maxConcurrency |-> Undefined] :
     cpu \in Amounts, memory \in MemoryAmounts, gpu \in Amounts}

NewResourceTracker ==
  \E totalCPU \in Amounts, totalMemoryMB \in MemoryAmounts, totalGPUMemoryMB \in Amounts :
    newResourceTracker(totalCPU, totalMemoryMB, totalGPUMemoryMB)

CallAllocate == \E nodeId \in Names, c \in ConstraintSets : callAllocate(nodeId, c)

CallRelease == \E nodeId \in Names : callRelease(nodeId)

\* a ResourceTracker under any sequence of allocate and release calls
NextTracker ==
  \/ NewResourceTracker
  \/ CallAllocate
  \/ CallRelease

SpecTracker == Init /\ [][NextTracker]_vars

\* the nodes of a run: an LLM node without constraints, with a heavy CPU
\* demand or with a maxConcurrency, a tool node without constraints or with a
\* GPU demand
NodeKinds ==
  {[type |-> "llm", constraints |-> NoConstraints],
   [type |-> "llm", constraints |-> [NoConstraints EXCEPT !.resources.cpu = MaxUnits]],
   [type |-> "llm", constraints |-> [NoConstraints EXCEPT !.maxConcurrency = 1]],
   [type |-> "tool", constraints |-> NoConstraints],
   [type |-> "tool", constraints |-> [NoConstraints EXCEPT !.resources.gpu = 1]]}

AddNodeC == \E kind \in NodeKinds : addNodeC(kind.type, kind.constraints)

\* edges from a lower to a higher name only: every Graph built is acyclic
AddEdgeC == \E from \in Names, to \in Names : from < to /\ addEdgeR(from, to)

TrackerForRun ==
  /\ status = "build"
  /\ \E totalCPU \in 1..MaxUnits, totalGPUMemoryMB \in {0, 1} :
       newResourceTracker(totalCPU, DefaultTotalMemoryMB, totalGPUMemoryMB)

NewAdaptiveExecutorC == \E workers \in 1..MaxParallel : newAdaptiveExecutorC(workers)

SetTypeConcurrencyLimit == setTypeConcurrencyLimit("llm", 1)

ExecuteC == executeC

CompleteC == \E n \in Names, throws \in BOOLEAN : completeC(n, throws)

LoopResumes == loopResumes

\* the constraint-aware AdaptiveExecutor of scheduler.ts on acyclic Graphs
NextResources ==
  \/ AddNodeC
  \/ AddEdgeC
  \/ TrackerForRun
  \/ NewAdaptiveExecutorC
  \/ SetTypeConcurrencyLimit
  \/ ExecuteC
  \/ CompleteC
  \/ LoopResumes

SpecResources == Init /\ [][NextResources]_vars

\* every started action completes, and the loop goes on when what it awaits
\* has settled
SpecResourcesFair ==
  /\ Init
  /\ [][NextResources]_vars
  /\ WF_vars(CompleteC)
  /\ WF_vars(LoopResumes)

AddNodeNamed == \E agent \in BOOLEAN : addNodeNamed(agent)

\* Graphs of agent nodes and other nodes
NextPath ==
  \/ AddNodeNamed
  \/ AddEdgeR

SpecPath == Init /\ [][NextPath]_vars

RECURSIVE RuleLists(_)
RuleLists(n) ==
  IF n = 0 THEN {<<>>}
  ELSE RuleLists(n - 1) \cup
       {Append(rs, RewriteRule(Len(rs) + 1, inPlace)) :
          rs \in {r \in RuleLists(n - 1) : Len(r) = n - 1}, inPlace \in BOOLEAN}

NewAdaptiveExecutor ==
  \E rules \in RuleLists(MaxRules), option \in {Undefined} \cup (0..MaxMods) :
    newAdaptiveExecutor(rules, option)

AddRule ==
  /\ Len(rewriteRules) < MaxRules
  /\ \E inPlace \in BOOLEAN : addRule(RewriteRule(Len(rewriteRules) + 1, inPlace))

ExecuteAdaptive ==
  /\ calls < MaxRuns
  /\ \E inp \in InputMaps : executeAdaptive(inp)

\* at most MaxMods rounds of a call are followed; the action of a rule comes
\* into play only when a rule is to be applied
SchedulerSettles ==
  /\ Len(executed) <= MaxMods
  /\ \E outcome \in {"ok", "stop", "throw"}, trig \in [1..Len(rewriteRules) -> TriggerOutcomes] :
       \E act \in IF outcome = "ok" /\ evaluate(trig, 1) # <<>> THEN {"ok", "throws"} ELSE {"ok"} :
         schedulerSettles(outcome, trig, act)

\* the AdaptiveExecutor of patch.ts with its rules, called up to MaxRuns times
NextAdaptive ==
  \/ NewAdaptiveExecutor
  \/ AddRule
  \/ ExecuteAdaptive
  \/ SchedulerSettles

SpecAdaptive == Init /\ [][NextAdaptive]_vars

NewAdaptiveExecutorR == newAdaptiveExecutorR

ExecuteAdaptiveR == executeAdaptiveR

CompleteAdaptiveR == \E n \in Names, throws \in BOOLEAN : completeAdaptiveR(n, throws)

JoinAdaptiveR == joinAdaptiveR

\* the parallel AdaptiveExecutor of part_008 on the DAG of part_004
NextPool ==
  \/ AddNodeR
  \/ AddEdgeR
  \/ NewAdaptiveExecutorR
  \/ ExecuteAdaptiveR
  \/ CompleteAdaptiveR
  \/ JoinAdaptiveR

SpecPool == Init /\ [][NextPool]_vars

NextWorkers ==
  \/ AddNodeR
  \/ AddEdgeR
  \/ NewSchedulerR
  \/ ExecuteR
  \/ StepBeginR
  \/ StepCompleteR

SpecWorkers == Init /\ [][NextWorkers]_vars

\* ---------------------------------------------------------------- claims
\* the dependency relation of the graph: d -> n when n declares d as a
\* dependency (and d is in the graph) or when the edge d -> n is in DAG.edges
Pred(n) == {d \in NodeSet : includes(dependencies[n], d) \/ includes(edges[d], n)}

DeclaredPred(n) == {d \in NodeSet : includes(dependencies[n], d)}

RECURSIVE Grow(_, _)
Grow(S, k) == IF k = 0 THEN S ELSE Grow(S \cup UNION {Pred(x) : x \in S}, k - 1)

Ancestors(n) == Grow(Pred(n), MaxNodes)

OnCycle(n) == n \in Ancestors(n)

Cyclic == \E n \in NodeSet : OnCycle(n)

Launched(n) == task[n] \in {"before", "exec", "after", "ok", "stop", "err"}

\* C1: in executeParallel a node's action is started only after every one of
\* its dependencies has completed and has its output in the result map (the
\* inputs collected for the node hold the output of each dependency).
C1_StartsAfterDependencies ==
  mode = "par" =>
    \A n \in NodeSet : Launched(n) => \A d \in DeclaredPred(n) : d \in DOMAIN taskIn[n]

\* C2: execute runs every node after all of its direct and transitive
\* dependencies, declared on the node or added with addEdge.
C2_SequentialRespectsAllEdges ==
  (mode = "seq" /\ ~Cyclic) =>
    \A i \in 1..Len(started) :
      \A d \in Ancestors(started[i]) : \E j \in 1..(i - 1) : started[j] = d

\* C3: for an acyclic graph getTopologicalOrder returns a permutation of the
\* node names in which u precedes v for every edge u -> v.
C3_TopologicalOrderValid ==
  ~Cyclic =>
    LET r == getTopologicalOrder IN
      /\ r.thrown = <<>>
      /\ Len(r.order) = Len(nodes)
      /\ \A n \in NodeSet : Count(r.order, n) = 1
      /\ \A u \in NodeSet, v \in NodeSet :
           includes(edges[u], v) => IndexOf(r.order, u) < IndexOf(r.order, v)

\* C4: for a graph with a cycle getTopologicalOrder raises the cycle error and
\* names a node that lies on a cycle.
C4_CycleRaises ==
  Cyclic =>
    LET r == getTopologicalOrder IN r.thrown # <<>> /\ OnCycle(r.thrown[1])

\* C5: a parallel run that resolves without a controlled stop has invoked the
\* action of every node exactly once and recorded its output.
C5_EveryNodeOnce ==
  (mode = "par" /\ status = "resolved" /\ ~stopped) =>
    \A n \in NodeSet :
      /\ Count(started, n) = 1
      /\ task[n] = "ok"
      /\ n \in DOMAIN results
      /\ results[n] = taskOut[n]

C5_Witness ==
  /\ mode = "par"
  /\ status = "resolved"
  /\ ~stopped
  /\ Len(nodes) = MaxNodes
  /\ Len(levels) >= 2
  /\ hooks

\* C6: the number of node actions in flight never exceeds maxParallelNodes.
C6_InFlightBounded ==
  Cardinality({n \in Names : task[n] = "exec"}) <= maxParallelNodes

\* C7: with a token budget configured, the cumulative tokens used never
\* exceed the budget.
C7_TokensWithinBudget ==
  tokenBudget # <<>> => tokensUsed <= tokenBudget[1]

C7_Witness ==
  /\ tokenBudget # <<>>
  /\ tokensUsed = tokenBudget[1]
  /\ tokensUsed > 0
  /\ mode = "par"
  /\ status = "rejected"
  /\ err = "budget"

\* C8: when the next node's cost would exceed the budget, execute fails with
\* the budget error before the node's action is invoked and without adding
\* the node's cost; what was admitted before fits in the budget.
C8_BudgetRejectsBeforeAdmission ==
  [][(mode = "seq" /\ status = "running" /\ status' = "rejected" /\ err' = "budget") =>
       /\ tokensUsed + tokenCost[order[pos]] > tokenBudget[1]
       /\ tokensUsed' = tokensUsed
       /\ tokensUsed <= tokenBudget[1]
       /\ started' = started
       /\ ~includes(started', order[pos])
       /\ task'[order[pos]] = "idle"]_vars

\* two nodes of the same cost: the first is admitted, the second rejected
C8_Witness ==
  /\ mode = "seq"
  /\ status = "rejected"
  /\ err = "budget"
  /\ runs = 1
  /\ Len(started) = 1
  /\ tokenCost[started[1]] = tokenCost[order[pos]]
  /\ tokensUsed = tokenCost[started[1]]

\* C9: execute and executeParallel on the same graph and inputs return the
\* same output map.
C9_ParallelEqualsSequential ==
  (/\ mode = "par"
   /\ status = "resolved"
   /\ Len(seqOut) > 0
   /\ ~seqOut[1].stopped
   /\ seqOut[1].in = inputs) => results = seqOut[1].out

\* C10: when a node's action throws during Scheduler.execute the call rejects,
\* the failed action is not invoked again, no later node is executed, and the
\* error does not become the node's output.
C10_ErrorAborts ==
  mode = "seq" =>
    \A n \in NodeSet :
      task[n] = "err" =>
        /\ status = "rejected"
        /\ Count(started, n) = 1
        /\ started[Len(started)] = n
        /\ n \notin DOMAIN results

\* C11: when the before-hook returns false for node n during execute, the call
\* resolves without error, n's action is not invoked, no node after n is
\* executed, and the returned map holds the outputs of the nodes executed
\* before n and no entry for n.
C11_BeforeHookStopsSequential ==
  (mode = "seq" /\ stopped /\ task[order[pos]] = "idle") =>
    /\ status = "resolved"
    /\ err = "none"
    /\ seqOut = <<[in |-> inputs, out |-> results, stopped |-> TRUE]>>
    /\ \A i \in 1..Len(order) :
         IF i < pos
           THEN /\ Count(started, order[i]) = 1
                /\ order[i] \in DOMAIN results
                /\ results[order[i]] = Out(order[i], taskIn[order[i]])
           ELSE /\ ~includes(started, order[i])
                /\ order[i] \notin DOMAIN results

C11_Witness ==
  /\ mode = "seq"
  /\ stopped
  /\ task[order[pos]] = "idle"
  /\ pos = 2
  /\ Len(order) = MaxNodes

\* C12: when a before- or after-hook returns false during executeParallel, the
\* returned map contains the output of every node whose action completed
\* before the stop, the other nodes of the stopping level included.
C12_StopPreservesOutputs ==
  (mode = "par" /\ status = "resolved" /\ stopped) =>
    \A n \in NodeSet :
      taskOut[n] # EmptyMap => (n \in DOMAIN results /\ results[n] = taskOut[n])

\* the nodes whose action completed in the current run
Completed == {n \in NodeSet : taskOut[n] # EmptyMap}

\* C13: with an audit directory configured, once a run is over (and no task
\* of it is still in flight) the audit records are exactly those of the nodes
\* whose action completed in that run, each holding the node's resolved inputs
\* and its output.
C13_AuditMatchesRun ==
  (auditDir /\ status \in {"resolved", "rejected"} /\ InFlight = {}) =>
    \A n \in Names :
      IF n \in Completed
        THEN audit[n] = <<[node |-> n, inputs |-> taskIn[n], output |-> taskOut[n]]>>
        ELSE audit[n] = <<>>

\* the same, for the first run of a Scheduler on an empty audit directory
\* (holds under SpecAudit)
AuditMatchesFirstRun ==
  (auditDir /\ runs = 1 /\ status \in {"resolved", "rejected"} /\ InFlight = {}) =>
    \A n \in Names :
      IF n \in Completed
        THEN audit[n] = <<[node |-> n, inputs |-> taskIn[n], output |-> taskOut[n]]>>
        ELSE audit[n] = <<>>

\* the nodes whose action has been started in the current run
Started == {n \in Names : includes(started, n)}

\* the length of the sliding window of the rate limit, in milliseconds
RateWindow == 60 * MsPerSecond

StartsInWindow(t) == {n \in Started : t <= startedAt[n] /\ startedAt[n] < t + RateWindow}

\* C14: with a rate limit R configured, the number of node starts inside any
\* sliding 60-second window of a run is at most R (a window that holds more
\* than R starts can be moved to begin at its first start, so the windows
\* beginning at a start are enough)
C14_StartsPerWindowWithinRate ==
  (rateLimitPerSecond # <<>> /\ mode # "none") =>
    \A n \in Started : Cardinality(StartsInWindow(startedAt[n])) <= rateLimitPerSecond[1]

\* what the rate limit of part_007 does guarantee for execute: two starts of
\* a sequential run are at least 1000 / rate milliseconds apart
SequentialStartsSpaced ==
  (rateLimitPerSecond # <<>> /\ mode = "seq") =>
    \A n \in Started, m \in Started :
      n # m => \/ startedAt[n] - startedAt[m] >= MsPerSecond \div rateLimitPerSecond[1]
               \/ startedAt[m] - startedAt[n] >= MsPerSecond \div rateLimitPerSecond[1]

\* the nodes whose action is running for longer than maxExecutionTime
Overdue == {n \in Names : task[n] = "exec" /\ now - startedAt[n] > maxExecutionTime}

\* the nodes whose action completed later than maxExecutionTime after its start
Late == {n \in Completed : endedAt[n] - startedAt[n] > maxExecutionTime}

\* C15: with maxExecutionTime > 0, once the action of a node is running for
\* longer than maxExecutionTime the run has failed with a timeout error, the
\* result of an action that completed late is not in the output map, and no
\* node is started after the timeout; with maxExecutionTime = 0 no run fails
\* with a timeout error
C15_TimeoutFailsRun ==
  /\ (maxExecutionTime > 0 /\ mode # "none") =>
       /\ Overdue # {} => (status = "rejected" /\ err = "timeout")
       /\ \A n \in Late : n \notin DOMAIN results
       /\ \A n \in Late, m \in Started : startedAt[m] <= startedAt[n] + maxExecutionTime
  /\ maxExecutionTime = 0 => err # "timeout"

\* what part_007 does: no run ever fails with a timeout error, whatever
\* maxExecutionTime is
NeverTimesOut == err # "timeout"

\* a node is ready: every dependency has completed, the node is not started
Ready(n) ==
  /\ n \in NodeSet
  /\ ~includes(started, n)
  /\ \A d \in Pred(n) : d \in Completed

\* a step of a parallel run launches a node that is not priority-listed only
\* after every priority-listed node that was ready before the step
LaunchesPriorityFirst ==
  mode' = "par" =>
    \A n \in NodeSet \ priorityNodes :
      (includes(started', n) /\ ~includes(started, n)) =>
        \A p \in priorityNodes :
          Ready(p) => \E i \in 1..Len(started'), j \in 1..Len(started') :
                        started'[i] = p /\ started'[j] = n /\ i < j

\* C16: in a parallel run with priorityNodes configured, whenever a node is
\* launched while a priority-listed node is ready, the node launched is a
\* priority-listed one
C16_PriorityLaunchedFirst == [][LaunchesPriorityFirst]_vars

\* the cost of the nodes of a sequence of names
RECURSIVE SumCost(_)
SumCost(names) == IF names = <<>> THEN 0 ELSE tokenCost[Head(names)] + SumCost(Tail(names))

\* C17: tokensUsed is reset at the start of each call of execute or
\* executeParallel: during a call it is the cost of the nodes admitted by
\* this call, as on a fresh Scheduler, whatever runs were made before
C17_TokensUsedResetEachRun ==
  (tokenBudget # <<>> /\ mode # "none") => tokensUsed = SumCost(started)

\* what part_007 does guarantee: the first call on a Scheduler counts from 0
TokensOfFirstRun ==
  (tokenBudget # <<>> /\ runs = 1) => tokensUsed = SumCost(started)

\* C18: after any sequence of addNode and addEdge calls the adjacency lists
\* and the dependency lists agree: there is an edge a -> b exactly when the
\* dependencies of b include a, for the nodes a and b of the graph
C18_EdgesMatchDependencies ==
  \A a \in NodeSet, b \in NodeSet : includes(edges[a], b) <=> includes(dependencies[b], a)

\* a step that leaves the nodes of the graph as they are (an addNode with a
\* name already in the graph) leaves the node objects and the adjacency lists
\* as they are
DuplicateAddLeavesGraph ==
  (status = "build" /\ status' = "build" /\ nodes' = nodes) =>
    UNCHANGED <<dependencies, tokenCost, edges>>

\* C19: addNode with a name already in the graph leaves the graph unchanged:
\* the node registered under the name, its outgoing edges and every other
\* adjacency list are as before the call
C19_DuplicateAddNodeRejected == [][DuplicateAddLeavesGraph]_vars

\* a step after g2 = g.copy() changes the original or the copy, never both
ChangesOneGraph ==
  (g2 # <<>> /\ g2' # <<>>) =>
    \/ UNCHANGED <<nodes, dependencies, edges, tokenCost>>
    \/ UNCHANGED g2

\* C20: after g2 = g.copy(), addNode, addEdge and dependency changes on g2
\* leave the nodes, the node contents and the edges of g unchanged, and the
\* same changes on g leave g2 unchanged
C20_CopyIsIndependent == [][ChangesOneGraph]_vars

\* the copy has a node that the original has not, the original has an edge
\* that the copy has not, and a node has other dependencies in the two
C20_Witness ==
  /\ g2 # <<>>
  /\ Len(g2[1].nodes) > Len(nodes)
  /\ \E a \in NodeSet, b \in NodeSet : includes(edges[a], b) /\ ~includes(g2[1].edges[a], b)
  /\ \E n \in NodeSet : dependencies[n] # g2[1].dependencies[n]

\* C21: for a graph with a cycle, a call of an executor fails with the cycle
\* error and no action has been invoked; it never returns a result
C21_CycleFailsEveryExecutor ==
  (Cyclic /\ mode # "none") => (status = "rejected" /\ err = "cycle" /\ started = <<>>)

\* what the parallel AdaptiveExecutor does: it runs the nodes that no cycle
\* reaches and returns without the others
PoolSkipsCycles ==
  (mode = "pool" /\ status = "resolved") =>
    /\ err = "none"
    /\ \A n \in NodeSet :
         n \in DOMAIN results <=> (~OnCycle(n) /\ \A a \in Ancestors(n) : ~OnCycle(a))

\* a call of execute of the AdaptiveExecutor with rewrite rules has returned
Returned == pc = "returned"

\* C22: with maxModifications = 0 a call applies no rewrite, runs the base
\* Graph exactly once and returns the node outputs of that run
C22_ZeroBudgetRunsBaseOnce ==
  (Returned /\ maxModifications = 0) =>
    /\ returned.totalModifications = 0
    /\ returned.modificationHistory = <<>>
    /\ executed = <<baseDag>>
    /\ returned.state.outputs = schedulerResult(baseDag, returned.state.inputs)

\* what the code does with maxModifications = 0: nothing is executed
ZeroBudgetRunsNothing ==
  (Returned /\ maxModifications = 0) =>
    /\ executed = <<>>
    /\ returned = returnValue([inputs |-> executionState.inputs, outputs |-> EmptyMap],
                              <<>>, baseDag, 0)

\* the first rule of the list whose trigger returns true, 0 when there is none
RECURSIVE firstTrue(_, _)
firstTrue(trig, i) ==
  IF i > Len(trig) THEN 0 ELSE IF trig[i] = "true" THEN i ELSE firstTrue(trig, i + 1)

Triggers(trig) == firstTrue(trig, 1) # 0

\* C23: when the Scheduler run of the first round fails with a node's error and
\* the trigger of a rule matches, the call does not reject: the rule is
\* applied, the history has exactly one entry and the new Graph is executed
C23_NodeErrorFallsBack ==
  (round.outcome = "throw" /\ Triggers(round.trig) /\ Len(executed) <= 2) =>
    /\ pc # "rejected"
    /\ round.applied = firstTrue(round.trig, 1)
    /\ Len(modificationHistory) = 1
    /\ mayModify(1) => executed = <<baseDag, <<rewriteRules[round.applied].name>>>>

\* what the code does: an error of the Scheduler other than the controlled
\* stop rejects the call, whatever the triggers would return
NodeErrorRejects ==
  round.outcome = "throw" => (pc = "rejected" /\ round.applied = 0)

\* C24: the number of modifications never exceeds maxModifications; a returned
\* result has totalModifications = the length of modificationHistory, whose
\* entries are numbered 1, 2, ... in order
C24_ModificationsBounded ==
  /\ modificationCount <= maxModifications
  /\ Len(modificationHistory) = modificationCount
  /\ \A i \in DOMAIN modificationHistory : modificationHistory[i].modificationCount = i
  /\ Returned =>
       /\ returned.totalModifications = Len(returned.modificationHistory)
       /\ returned.totalModifications <= maxModifications
       /\ returned.modificationHistory = modificationHistory

C24_Witness ==
  /\ Returned
  /\ maxModifications = 2
  /\ returned.totalModifications = 2
  /\ returned.modificationHistory[2].modificationCount = 2

\* C25: a call that applied a rewrite returns only after the rewritten Graph
\* has been executed: finalDag is the last Graph the Scheduler ran
C25_FinalDagExecuted ==
  (Returned /\ returned.totalModifications > 0) =>
    (executed # <<>> /\ executed[Len(executed)] = returned.finalDag)

\* what the code does: the rewrite that uses up maxModifications is returned
\* without having been executed
LastRewriteNotExecuted ==
  (Returned /\ round.applied # 0) =>
    (returned.totalModifications = maxModifications
       /\ executed[Len(executed)] # returned.finalDag)

\* C26: a round applies at most one transform, that of the first rule in list
\* order whose trigger returned true
C26_FirstTriggeredRuleOnly ==
  [][pc = "running" =>
       /\ Len(modificationHistory') <= Len(modificationHistory) + 1
       /\ Len(modificationHistory') = Len(modificationHistory) + 1 =>
            LET first == firstTrue(round'.trig, 1)
            IN /\ first # 0
               /\ round'.applied = first
               /\ modificationHistory'[Len(modificationHistory')].ruleName = rewriteRules[first].name
               /\ currentDag' = Append(currentDag, rewriteRules[first].name)]_vars

C26_Witness ==
  /\ Len(round.trig) = 2
  /\ round.trig[1] = "true"
  /\ round.trig[2] = "true"
  /\ round.applied = 1
  /\ currentDag = <<1>>

\* C27: when the transform throws, the call returns at once with the counter,
\* the history and the Graph of that round unchanged; no other rule is applied
\* and nothing is executed again
C27_TransformFailureStops ==
  [][(pc = "running" /\ round'.act = "throws") =>
       /\ pc' = "returned"
       /\ modificationCount' = modificationCount
       /\ modificationHistory' = modificationHistory
       /\ currentDag' = currentDag
       /\ executed' = executed
       /\ round'.applied = 0
       /\ returned' = returnValue(executionState', modificationHistory, currentDag,
                                  modificationCount)]_vars

C27_Witness ==
  /\ Returned
  /\ round.act = "throws"
  /\ Len(round.trig) = 2
  /\ round.trig[1] = "true"
  /\ round.trig[2] = "true"
  /\ returned.totalModifications = 1
  /\ returned.finalDag # <<>>

\* C28: when the Scheduler signals a controlled stop, the rules are still
\* evaluated on the partial state and a rule that triggers is applied
C28_StopStillEvaluatesRules ==
  (round.outcome = "stop" /\ Triggers(round.trig)) =>
    /\ pc # "rejected"
    /\ round.act # "none"
    /\ round.act = "ok" => round.applied = firstTrue(round.trig, 1)

\* what the code does: the controlled stop leaves the loop; the call returns
\* without error and without calling any trigger or transform
StopLeavesLoop ==
  round.outcome = "stop" =>
    (Returned /\ round.act = "none" /\ round.applied = 0
       /\ returned.totalModifications = modificationCount)

\* C29: a trigger that throws counts as not triggered: the call does not
\* reject, the other rules are evaluated in the same round and the first of
\* them that triggers is applied
C29_ThrowingTriggerSkipped ==
  (round.outcome = "ok" /\ \E i \in DOMAIN round.trig : round.trig[i] = "throws") =>
    /\ pc \in {"running", "returned"}
    /\ Triggers(round.trig) =>
         /\ round.act # "none"
         /\ round.act = "ok" => round.applied = firstTrue(round.trig, 1)

C29_Witness ==
  /\ round.outcome = "ok"
  /\ Len(round.trig) = 2
  /\ round.trig[1] = "throws"
  /\ round.trig[2] = "true"
  /\ round.applied = 2
  /\ currentDag = <<2>>

\* C30: execute never changes baseDag, and every call starts from a copy of
\* the unmodified base: the Graph being rewritten is never baseDag itself
C30_BaseDagUnchanged ==
  /\ baseDag = <<>>
  /\ ~currentIsBase
  /\ executed # <<>> => executed[1] = <<>>

C30_Witness ==
  /\ calls = 2
  /\ Returned
  /\ round.applied # 0
  /\ rewriteRules[round.applied].inPlace
  /\ returned.finalDag # <<>>

\* a Graph has been parsed from one plan text
Parsed == Len(plans) = 1

\* C31: parse of a string plan with n non-empty lines yields the nodes
\* step_1..step_n, exactly the edges step_i -> step_(i+1), the same chain in
\* the nodes' dependencies, and a tool node exactly for the lines marked tool
C31_StringPlanIsChain ==
  Parsed =>
    LET lines == planLines(plans[1])
        n == Len(lines)
    IN /\ nodes = [i \in 1..n |-> i]
       /\ \A i \in 1..n :
            /\ edges[i] = IF i < n THEN <<i + 1>> ELSE <<>>
            /\ dependencies[i] = IF i > 1 THEN <<i - 1>> ELSE <<>>
            /\ nodeType[i] = IF includes(lines[i], "tool") THEN "tool" ELSE "llm"

\* what the code does: the chain is in the adjacency lists only, no node has
\* a dependency
StringPlanChainsEdgesOnly ==
  Parsed =>
    LET lines == planLines(plans[1])
        n == Len(lines)
    IN /\ nodes = [i \in 1..n |-> i]
       /\ \A i \in 1..n :
            /\ edges[i] = IF i < n THEN <<i + 1>> ELSE <<>>
            /\ dependencies[i] = <<>>
            /\ nodeType[i] = IF includes(lines[i], "tool") THEN "tool" ELSE "llm"

\* the dependencies of the node of the last getNodeInputs call that have an
\* output in the results given: the nodes listed in its dependencies (dag.ts)
\* or those with an edge to it (part_004, whose nodes have no such list)
Feeding(viaDependencies) ==
  {d \in DOMAIN got.outputs :
     IF viaDependencies THEN includes(dependencies[got.nodeId], d)
     ELSE includes(edges[d], got.nodeId)}

\* field k of the inputs returned comes from dependency d
Carries(d, k) ==
  LET mapping == edgeMappings[d][got.nodeId]
      output == got.outputs[d]
  IN IF mapping.has
     THEN \E src \in DOMAIN mapping.map :
            src \in DOMAIN output /\ mapping.map[src] = k /\ got.inputs[k] = output[src]
     ELSE k \in DOMAIN output /\ got.inputs[k] = output[k]

\* every field a dependency must provide is in the inputs, and every field
\* of the inputs is provided by a dependency
InputsAsMapped(deps) ==
  /\ \A d \in deps :
       LET mapping == edgeMappings[d][got.nodeId]
           output == got.outputs[d]
       IN IF mapping.has
          THEN \A src \in DOMAIN mapping.map :
                 src \in DOMAIN output => mapping.map[src] \in DOMAIN got.inputs
          ELSE \A k \in DOMAIN output : k \in DOMAIN got.inputs
  /\ \A k \in DOMAIN got.inputs : \E d \in deps : Carries(d, k)

\* C32: getNodeInputs copies, for a dependency whose edge carries a field
\* mapping, exactly the mapped fields under their new keys, and merges every
\* field of the output of a dependency whose edge carries none
C32_NodeInputsFollowMapping ==
  got.nodeId # 0 => InputsAsMapped(Feeding(TRUE))

\* getNodeInputs of part_004 does so (holds under SpecInputsR)
NodeInputsFollowMappingR ==
  got.nodeId # 0 => InputsAsMapped(Feeding(FALSE))

\* getNodeInputs of dag.ts merges the whole output of every dependency that
\* has one, whatever the edge carries
NodeInputsIgnoreMapping ==
  got.nodeId # 0 =>
    /\ \A d \in DOMAIN got.outputs :
         includes(dependencies[got.nodeId], d) =>
           \A k \in DOMAIN got.outputs[d] : k \in DOMAIN got.inputs
    /\ \A k \in DOMAIN got.inputs :
         \E d \in DOMAIN got.outputs :
           /\ includes(dependencies[got.nodeId], d)
           /\ k \in DOMAIN got.outputs[d]
           /\ got.inputs[k] = got.outputs[d][k]

\* the nodes whose action completed in the current run
CompletedNodes == {n \in NodeSet : task[n] = "ok"}

\* C33: when a run fails with the token-budget error, the outputs of the
\* nodes that completed before are handed to the caller with the failure
C33_BudgetFailureKeepsOutputs ==
  (status = "rejected" /\ err = "budget" /\ CompletedNodes # {}) =>
    /\ "results" \in DOMAIN rejection
    /\ \A n \in CompletedNodes :
         n \in DOMAIN rejection.results /\ rejection.results[n] = taskOut[n]

\* what the code does: the outputs gathered are in the local results map of
\* the call, and the caller receives an Error that has a message only
BudgetFailureDropsOutputs ==
  (mode = "seq" /\ status = "rejected" /\ err = "budget") =>
    /\ DOMAIN rejection = {"message"}
    /\ \A n \in CompletedNodes : n \in DOMAIN results

\* C34: once executeParallel has been rejected by the failure of a node, no
\* other action is started: no task of the level goes on to reserve tokens,
\* to call node.execute or to write an audit record
C34_NothingStartsAfterRejection ==
  [][(mode = "par" /\ status = "rejected") =>
       /\ started' = started
       /\ tokensUsed' = tokensUsed
       /\ audit' = audit]_vars

\* the index of the level group that holds node n (0 when no group does)
GroupOf(groups, n) ==
  IF \E i \in 1..Len(groups) : includes(groups[i], n)
    THEN CHOOSE i \in 1..Len(groups) : includes(groups[i], n)
    ELSE 0

InOneGroup(groups, n) ==
  /\ Cardinality({i \in 1..Len(groups) : includes(groups[i], n)}) = 1
  /\ Count(groups[GroupOf(groups, n)], n) = 1

\* C35: for an acyclic graph getLevelGroups places every node in exactly one
\* level group, and the group of a node comes strictly after the group of each
\* of its dependencies.
C35_LevelsAboveDependencies ==
  LET r == getLevelGroups
  IN r.thrown = <<>> =>
       \A n \in NodeSet :
         /\ InOneGroup(r.groups, n)
         /\ \A d \in DeclaredPred(n) : GroupOf(r.groups, d) < GroupOf(r.groups, n)

\* the part of C35 the code keeps: every node is in exactly one level group
EveryNodeInOneGroup ==
  LET r == getLevelGroups
  IN r.thrown = <<>> => \A n \in NodeSet : InOneGroup(r.groups, n)

\* a Graph has been merged from several plan texts
Merged == Len(plans) >= 2

\* the first prefixed name of plan i of the merged plans, less one
OffsetOf(i) == TotalLines(SubSeq(plans, 1, i - 1))

NodesOf(dag) == {dag.nodes[i] : i \in 1..Len(dag.nodes)}

\* the edges a -> b of a Graph value
EdgesOf(dag) == {<<a, b>> \in Names \X Names : includes(dag.edges[a], b)}

\* the nodes of a Graph value without an outgoing / without an incoming edge
LeavesOf(dag) == {n \in NodesOf(dag) : dag.edges[n] = <<>>}

RootsOf(dag) == {n \in NodesOf(dag) : ~\E a \in NodesOf(dag) : includes(dag.edges[a], n)}

UndeclaredOf(dag) == {n \in NodesOf(dag) : dag.dependencies[n] = <<>>}

\* the edges of the merged Graph when plan i+1 is entered through the set
\* entry(plan i+1) of its nodes
MergedEdges(entry(_)) ==
  UNION {{<<OffsetOf(i) + e[1], OffsetOf(i) + e[2]>> : e \in EdgesOf(parseString(plans[i]))} :
           i \in 1..Len(plans)}
    \cup UNION {LET Pi == parseString(plans[i])
                    Pn == parseString(plans[i + 1])
                IN {<<OffsetOf(i) + l, OffsetOf(i + 1) + r>> : l \in LeavesOf(Pi), r \in entry(Pn)} :
                  i \in 1..(Len(plans) - 1)}

\* C36: parseMultiple returns a Graph with the plans' nodes under distinct
\* prefixes, each plan's own edges, and between plans exactly the edges from
\* each leaf of a plan to each node of the next plan that has no dependency,
\* which is to be a node without incoming edge; the merged Graph is acyclic.
C36_PlansLinkedLeafToRoot ==
  Merged =>
    /\ nodes = [i \in 1..TotalLines(plans) |-> i]
    /\ \A i \in 1..Len(plans) : \A n \in NodesOf(parseString(plans[i])) :
         nodeType[OffsetOf(i) + n] = parseString(plans[i]).nodeType[n]
    /\ {<<a, b>> \in Names \X Names : includes(edges[a], b)} = MergedEdges(RootsOf)
    /\ ~Cyclic

\* what the code does: a plan is entered through every node whose dependencies
\* list is empty, and the merged Graph is acyclic
PlansLinkedLeafToUndeclared ==
  Merged =>
    /\ nodes = [i \in 1..TotalLines(plans) |-> i]
    /\ {<<a, b>> \in Names \X Names : includes(edges[a], b)} = MergedEdges(UndeclaredOf)
    /\ ~Cyclic

\* the sum of field f over the reservations recorded in activeExecutions
RECURSIVE Reserved(_, _)
Reserved(f, ids) ==
  IF ids = {} THEN 0
  ELSE LET id == CHOOSE x \in ids : TRUE
       IN resourceTracker.activeExecutions[id][f] + Reserved(f, ids \ {id})

UsedIsReserved ==
  LET ids == DOMAIN resourceTracker.activeExecutions
  IN /\ resourceTracker.usedCPU = Reserved("cpu", ids)
     /\ resourceTracker.usedMemoryMB = Reserved("memory", ids)
     /\ resourceTracker.usedGPUMemoryMB = Reserved("gpu", ids)

\* C39: after any sequence of allocate and release calls, a repeated allocate
\* of an id and a release of an unknown id included, the used CPU, memory and
\* GPU memory equal the sums of the reservations in activeExecutions; an
\* allocate that returns false changes nothing.
C39_UsedEqualsReservations ==
  /\ UsedIsReserved
  /\ (trackerCall.op = "allocate" /\ ~trackerCall.returned) =>
       resourceTracker = trackerCall.before

\* what the code keeps: the sums agree as long as no id was allocated again
\* while it was active, and a refused allocate changes nothing
UsedEqualsReservationsOfDistinctIds ==
  /\ ~trackerCall.repeated => UsedIsReserved
  /\ (trackerCall.op = "allocate" /\ ~trackerCall.returned) =>
       resourceTracker = trackerCall.before

\* the nodes whose action is running in a constraint-aware run
RunningNodes == {n \in NodeSet : task[n] = "exec"}

\* C37: a constraint-aware execute on an acyclic Graph eventually returns
\* with the output of every node recorded, whatever the nodes' constraints and
\* the tracker's totals, when every started action completes.
C37_ConstrainedRunReturns ==
  (mode = "res" /\ status = "running" /\ ~Cyclic)
    ~> (status = "resolved" /\ \A n \in NodeSet : n \in DOMAIN results)

\* every node can be admitted on an idle executor: its demand fits the totals
\* and its maxConcurrency is not 0
Admissible ==
  \A n \in NodeSet :
    /\ hasResourcesFor([resourceTracker EXCEPT !.usedCPU = 0, !.usedMemoryMB = 0,
                                               !.usedGPUMemoryMB = 0], constraints[n])
    /\ constraints[n].maxConcurrency # 0

\* what the code does: the run returns when every node is admissible on its own
AdmissibleRunReturns ==
  (mode = "res" /\ status = "running" /\ ~Cyclic /\ Admissible)
    ~> (status = "resolved" /\ \A n \in NodeSet : n \in DOMAIN results)

\* C38: during a constraint-aware execute at most maxWorkers nodes are
\* running, the running nodes of a type are at most typeConcurrencyLimits of
\* the type, and the CPU, memory and GPU memory reserved in the tracker do not
\* exceed its totals.
C38_AdmissionLimitsHold ==
  mode = "res" =>
    /\ Cardinality(RunningNodes) <= maxWorkers
    /\ \A type \in DOMAIN typeConcurrencyLimits :
         Cardinality({n \in RunningNodes : nodeType[n] = type}) <= typeConcurrencyLimits[type]
    /\ resourceTracker.usedCPU <= resourceTracker.totalCPU
    /\ resourceTracker.usedMemoryMB <= resourceTracker.totalMemoryMB
    /\ resourceTracker.usedGPUMemoryMB <= resourceTracker.totalGPUMemoryMB

\* a run in which a limit is met: the workers, the limit of a type or a total
\* is used up while a ready node waits
C38_Witness ==
  /\ mode = "res"
  /\ status = "running"
  /\ readyNodes # <<>>
  /\ Cardinality(RunningNodes) = maxWorkers
  /\ \E type \in DOMAIN typeConcurrencyLimits :
       Cardinality({n \in RunningNodes : nodeType[n] = type}) = typeConcurrencyLimits[type]
  /\ resourceTracker.usedCPU = resourceTracker.totalCPU

\* the dependency chains of the Graph: from a node without incoming edge to a
\* node without outgoing edge, along edges
Chains ==
  {c \in UNION {[1..k -> NodeSet] : k \in 1..MaxNodes} :
     /\ ~\E a \in NodeSet : includes(edges[a], c[1])
     /\ edges[c[Len(c)]] = <<>>
     /\ \A i \in 1..(Len(c) - 1) : includes(edges[c[i]], c[i + 1])}

RECURSIVE Duration(_)
Duration(c) == IF c = <<>> THEN 0 ELSE nodeDurations(Head(c)) + Duration(Tail(c))

\* C40: for an acyclic Graph findCriticalPath returns a dependency chain, from
\* a node without incoming edge to a node without outgoing edge along edges,
\* and no dependency chain has a larger cumulative duration.
C40_CriticalPathIsLongestChain ==
  (NodeSet # {} /\ getTopologicalOrderR.thrown = <<>>) =>
    LET path == findCriticalPath
    IN /\ path \in Chains
       /\ \A c \in Chains : Duration(c) <= Duration(path)

\* what the code does: the path returned is a single node without outgoing
\* edge, one of the largest own duration
CriticalPathIsOneEndNode ==
  (NodeSet # {} /\ getTopologicalOrderR.thrown = <<>>) =>
    LET path == findCriticalPath
    IN /\ Len(path) = 1
       /\ edges[path[1]] = <<>>
       /\ \A n \in NodeSet : edges[n] = <<>> => nodeDurations(n) <= nodeDurations(path[1])

\* ------------------------------------------------- supporting properties
\* What the two graph implementations do guarantee, for comparison with the
\* properties above.

RECURSIVE GrowDeclared(_, _)
GrowDeclared(S, k) ==
  IF k = 0 THEN S ELSE GrowDeclared(S \cup UNION {DeclaredPred(x) : x \in S}, k - 1)

DeclaredAncestors(n) == GrowDeclared(DeclaredPred(n), MaxNodes)

\* execute (part_007 on src/src/dag.ts) runs every node after the nodes it
\* reaches through declared dependency lists (holds under SpecDag)
SequentialRespectsDeclared ==
  mode = "seq" =>
    \A i \in 1..Len(started) :
      \A d \in DeclaredAncestors(started[i]) : \E j \in 1..(i - 1) : started[j] = d

\* src/src/dag.ts getTopologicalOrder raises on a cycle of declared
\* dependencies, naming a node on it (holds under SpecDag)
DeclaredCycleRaises ==
  (\E n \in NodeSet : n \in DeclaredAncestors(n)) =>
    LET r == getTopologicalOrder
    IN r.thrown # <<>> /\ r.thrown[1] \in DeclaredAncestors(r.thrown[1])

\* part_004 getTopologicalOrder returns a permutation with u before v for
\* every edge u -> v of an acyclic graph (holds under SpecWorkers)
TopologicalOrderValidR ==
  ~Cyclic =>
    LET r == getTopologicalOrderR IN
      /\ r.thrown = <<>>
      /\ Len(r.order) = Len(nodes)
      /\ \A n \in NodeSet : Count(r.order, n) = 1
      /\ \A u \in NodeSet, v \in NodeSet :
           includes(edges[u], v) => IndexOf(r.order, u) < IndexOf(r.order, v)

\* part_004 getTopologicalOrder raises on a cycle of edges, naming a node on
\* it (holds under SpecWorkers)
CycleRaisesR ==
  Cyclic => LET r == getTopologicalOrderR IN r.thrown # <<>> /\ OnCycle(r.thrown[1])
====
